---------------------------- MODULE Spec2Model ----------------------------
(***************************************************************************)
(* path_analyzer.py (class Analyzer): ingestion of a listing of item       *)
(* paths, classification of every file against three length thresholds,   *)
(* the Node registry and the directory tree, the bottom-up aggregation,    *)
(* the child-count pass and the tree walks of the report phase.            *)
(*                                                                         *)
(* A Python string is a sequence of one-character strings, so that split,  *)
(* join, lstrip, len and the regular expression of parse_item_path are     *)
(* computed on characters as the code computes them.  A directory path is  *)
(* such a string; nodes_path is keyed by it as in the code.                *)
(***************************************************************************)
EXTENDS Integers, Sequences, FiniteSets, TLC

(***************************************************************************)
(* Bounds of the model.                                                    *)
(***************************************************************************)
\* number of data lines of the listing that are read
MaxLines == 2

(***************************************************************************)
(* Characters and strings.                                                 *)
(***************************************************************************)
BSL == "\\"

\* the forward slash, the separator of a listing taken on a POSIX system
SL == "/"

\* Python's None, as the value of a counter that has not been computed
None == 0 - 1

\* the characters the model uses, in the order of their code points
AsciiOrder ==
    <<"/", "A", "B", "E", "H", "L", "N", "O", "R", "S", "T", "U", "X",
      "\\", "_", "a", "b", "f", "g">>

Ord(c) == CHOOSE i \in 1..Len(AsciiOrder) : AsciiOrder[i] = c

\* s < t for Python strings (lexicographic on code points)
RECURSIVE StrLess(_, _)
StrLess(s, t) ==
    IF t = <<>> THEN FALSE
    ELSE IF s = <<>> THEN TRUE
    ELSE IF Ord(Head(s)) < Ord(Head(t)) THEN TRUE
    ELSE IF Ord(Head(s)) > Ord(Head(t)) THEN FALSE
    ELSE StrLess(Tail(s), Tail(t))

\* s.split(sep), sep one character: always at least one element
RECURSIVE Split(_, _)
Split(s, sep) ==
    IF \A i \in 1..Len(s) : s[i] # sep THEN <<s>>
    ELSE LET i == CHOOSE k \in 1..Len(s) :
                      s[k] = sep /\ \A j \in 1..(k - 1) : s[j] # sep
         IN  <<SubSeq(s, 1, i - 1)>> \o Split(SubSeq(s, i + 1, Len(s)), sep)

\* sep.join(list)
RECURSIVE Join(_, _)
Join(list, sep) ==
    IF list = <<>> THEN <<>>
    ELSE IF Len(list) = 1 THEN list[1]
    ELSE list[1] \o <<sep>> \o Join(Tail(list), sep)

\* s.lstrip(sep)
RECURSIVE LStrip(_, _)
LStrip(s, sep) ==
    IF s # <<>> /\ Head(s) = sep THEN LStrip(Tail(s), sep) ELSE s

\* list[:-1]
AllButLast(list) == SubSeq(list, 1, Len(list) - 1)

\* list[-1]
Last(list) == list[Len(list)]

\* list[-2:]
LastTwo(list) == IF Len(list) <= 2 THEN list ELSE SubSeq(list, Len(list) - 1, Len(list))

UNABLE_TO_SHORTEN ==
    <<"U", "N", "A", "B", "L", "E", "_", "T", "O", "_",
      "S", "H", "O", "R", "T", "E", "N">>

(***************************************************************************)
(* parse_item_path, lines 480-493: the cleaned path of an Item_Path.       *)
(* The regular expression (one or more non-backslash characters, then a    *)
(* group taking the rest) matches at the first character that is not a     *)
(* backslash, consumes the maximal run of such characters, and group 1 is  *)
(* the rest; the result is lstrip(path_sep) of group 1.  No match, or an   *)
(* empty result, is <<>> (the line is skipped).  The fields were stripped  *)
(* of white space by get_line_item.                                        *)
(***************************************************************************)
RegexGroup1(item_path) ==
    IF \A i \in 1..Len(item_path) : item_path[i] = BSL THEN <<>>
    ELSE LET i == CHOOSE k \in 1..Len(item_path) :
                      item_path[k] # BSL /\ \A j \in 1..(k - 1) : item_path[j] = BSL
             rest == SubSeq(item_path, i, Len(item_path))
             n == IF \A k \in 1..Len(rest) : rest[k] # BSL THEN Len(rest)
                  ELSE (CHOOSE k \in 1..Len(rest) :
                            rest[k] = BSL /\ \A j \in 1..(k - 1) : rest[j] # BSL) - 1
         IN  SubSeq(rest, n + 1, Len(rest))

CleanPath(item_path, sep) == LStrip(RegexGroup1(item_path), sep)

(***************************************************************************)
(* shorten_path, lines 915-936.  The recursive call does not pass          *)
(* get_parent_path, which therefore takes its default, True.               *)
(***************************************************************************)
RECURSIVE shorten_path(_, _, _, _)
\* the slice taken at the wrong end: the first segment goes, not the last
shorten_path_drop_first(path, length, get_parent_path, sep) ==
    IF Len(path) <= length
    THEN IF get_parent_path
         THEN LET path_list == Split(path, sep)
                  parent_path_list == Tail(path_list)
              IN  IF parent_path_list = <<>> \/ Len(path_list) = 1
                  THEN UNABLE_TO_SHORTEN
                  ELSE Join(parent_path_list, sep)
         ELSE path
    ELSE shorten_path(Join(Tail(Split(path, sep)), sep), length, TRUE, sep)

shorten_path(path, length, get_parent_path, sep) ==
    IF Len(path) <= length
    THEN IF get_parent_path
         THEN LET path_list == Split(path, sep)
                  parent_path_list == AllButLast(path_list)
              IN  IF parent_path_list = <<>> \/ Len(path_list) = 1
                  THEN UNABLE_TO_SHORTEN
                  ELSE Join(parent_path_list, sep)
         ELSE path
    ELSE shorten_path(Join(Tail(Split(path, sep)), sep), length, TRUE, sep)

(***************************************************************************)
(* The state of one run: the configuration of Analyzer.__init__, the       *)
(* registries, the class-level id counters, the position of process() and  *)
(* the rows written to the report files.                                   *)
(***************************************************************************)
VARIABLES
    path_sep,                \* self.path_sep
    file_limit,              \* self.file_limit
    max_path_length,         \* self.max_path_length
    max_parent_file_length,  \* self.max_parent_file_length
    max_file_length,         \* self.max_file_length
    search_local,            \* self.search_local
    key_order,               \* the order in which a dict of the tree lists its keys
    pc,                      \* the position of process() / prepare_batch_results()
    file_line_cnt,           \* self._file_line_cnt
    Node_COUNT,              \* Node._COUNT
    Outlier1_COUNT,          \* Outlier1._COUNT
    Outlier2_COUNT,          \* Outlier2._COUNT
    Outlier3_COUNT,          \* Outlier3._COUNT
    dir_tree,                \* self.dir_tree: the set of key lists of its branches
    nodes_path,              \* self.nodes_path: directory path -> Node
    nodes_id,                \* self.nodes_id: Node id -> (the path of) the Node
    nodes_depth,             \* self.nodes_depth: depth -> list of Node ids
    outliers1,               \* self.outliers1: Outlier1 id -> Outlier1
    outliers2,               \* self.outliers2: Outlier2 id -> Outlier2
    outliers3,               \* self.outliers3: Node id -> Outlier3
    sweep_todo,              \* depth_first_reverse_update: the Node ids still to visit
    warnings_rows,           \* rows written to the warnings file
    trimmed_rows,            \* rows written to the shortened (trim) file
    batch_rows,              \* rows written to the batch file
    walk,                    \* the tree directories the batch walk visited, in order
    last,                    \* what the last line read did (history)
    ingested,                \* directory path -> the file paths read for it (history)
    call,                    \* the last direct call of a pure function (history)
    listing,                 \* the data lines of the input file and what the first run made of them (history)
    first_run,               \* what the first run over the input file produced (history)
    handles                  \* the five report files: unopened, open or closed

vars ==
    <<path_sep, file_limit, max_path_length, max_parent_file_length,
      max_file_length, search_local, key_order, pc, file_line_cnt,
      Node_COUNT, Outlier1_COUNT, Outlier2_COUNT, Outlier3_COUNT,
      dir_tree, nodes_path, nodes_id, nodes_depth,
      outliers1, outliers2, outliers3, sweep_todo,
      warnings_rows, trimmed_rows, batch_rows, walk, last, ingested, call,
      listing, first_run, handles>>

config ==
    <<path_sep, file_limit, max_path_length, max_parent_file_length,
      max_file_length, search_local, key_order>>

\* the empty dict
EmptyDict == [x \in {} |-> x]

(***************************************************************************)
(* Node.init_attributes, lines 124-173, and Node.__init__, lines 115-122.  *)
(* batchable is None, True or False; the counters that include folders     *)
(* are None until update_node_child_cnts has set them.                     *)
(***************************************************************************)
init_attributes ==
    [local_cnt |-> 0, subdir_cnt |-> 0, total_cnt |-> 0,
     child_node_cnt |-> None, local_plus_child_cnt |-> None,
     subdir_plus_child_cnt |-> None, total_plus_child_cnt |-> None,
     local_path_length |-> 0, longest_fn_length |-> 0, longest_fp_length |-> 0,
     num_local_outliers1 |-> 0, num_local_outliers2 |-> 0,
     num_local_outliers3 |-> 0,
     has_outliers1 |-> FALSE, has_outliers2 |-> FALSE, has_outliers3 |-> FALSE,
     num_unable_to_shorten |-> 0,
     batchable |-> "None", shortened |-> FALSE, unable_to_shorten |-> FALSE,
     can_shorten |-> FALSE, trimmable |-> FALSE, trimmed |-> FALSE,
     wrote_over_limit |-> FALSE, depth |-> None]

\* Node(...) that ignores the data it is given
NewNode_unseeded(count, depth, local_path_length) ==
    [id |-> count + 1] @@ init_attributes

\* Node.__init__, lines 115-122: the next id, the defaults, then the data
NewNode(count, depth, local_path_length) ==
    [id |-> count + 1] @@
    [init_attributes EXCEPT !.depth = depth,
                            !.local_path_length = local_path_length]

\* the registries and counters as one value, which the methods below transform
Self ==
    [Node_COUNT |-> Node_COUNT,
     Outlier1_COUNT |-> Outlier1_COUNT,
     Outlier2_COUNT |-> Outlier2_COUNT,
     Outlier3_COUNT |-> Outlier3_COUNT,
     dir_tree |-> dir_tree, nodes_path |-> nodes_path, nodes_id |-> nodes_id,
     nodes_depth |-> nodes_depth,
     outliers1 |-> outliers1, outliers2 |-> outliers2, outliers3 |-> outliers3,
     outcome |-> "none", path |-> <<>>, shortened |-> <<>>, shorten_calls |-> 0]

(***************************************************************************)
(* insert_nodes_depth, lines 1007-1012.                                    *)
(***************************************************************************)
insert_nodes_depth(depths, node_id, depth) ==
    IF depth \notin DOMAIN depths THEN depths @@ (depth :> <<node_id>>)
    ELSE IF \A i \in 1..Len(depths[depth]) : depths[depth][i] # node_id
         THEN [depths EXCEPT ![depth] = Append(@, node_id)]
         ELSE depths

\* the three registrations, with the class counter left where it was
RegisterNode_keeps_count(self, dir_path, node) ==
    [self EXCEPT !.nodes_path = (dir_path :> node) @@ @,
                 !.nodes_id = (node.id :> dir_path) @@ @,
                 !.nodes_depth = insert_nodes_depth(@, node.id, node.depth)]

\* Node(...) followed by the three registrations that every creation site makes
\* (lines 500-505, 530-539, 999-1004)
RegisterNode(self, dir_path, node) ==
    [self EXCEPT !.Node_COUNT = node.id,
                 !.nodes_path = (dir_path :> node) @@ @,
                 !.nodes_id = (node.id :> dir_path) @@ @,
                 !.nodes_depth = insert_nodes_depth(@, node.id, node.depth)]

\* insert_nodes without the recursive call of line 1005
insert_nodes_single(self, dir_path, sep) ==
    IF dir_path = <<>> \/ dir_path \in DOMAIN self.nodes_path THEN self
    ELSE RegisterNode(self, dir_path,
             NewNode(self.Node_COUNT, Len(Split(dir_path, sep)), Len(dir_path)))

(***************************************************************************)
(* insert_nodes, lines 988-1005.                                           *)
(***************************************************************************)
RECURSIVE insert_nodes(_, _, _)
insert_nodes(self, dir_path, sep) ==
    IF dir_path = <<>> THEN self
    ELSE LET dir_path_list == Split(dir_path, sep)
             s1 == IF dir_path \notin DOMAIN self.nodes_path
                   THEN RegisterNode(self, dir_path,
                            NewNode(self.Node_COUNT, Len(dir_path_list), Len(dir_path)))
                   ELSE self
         IN  insert_nodes(s1, Join(AllButLast(dir_path_list), sep), sep)

(***************************************************************************)
(* add, lines 1506-1514: every prefix of the key list becomes a branch.    *)
(***************************************************************************)
add(t, path) == t \cup {SubSeq(path, 1, k) : k \in 1..Len(path)}

\* need_add_outlier3 that lets every candidate in
need_add_outlier3_always(self, node_id, shortened_path) == TRUE

(***************************************************************************)
(* need_add_outlier3, lines 938-951 (None, returned by falling off the     *)
(* end, is false).                                                         *)
(***************************************************************************)
need_add_outlier3(self, node_id, shortened_path) ==
    IF node_id \notin DOMAIN self.outliers3 THEN TRUE
    ELSE StrLess(shortened_path, self.outliers3[node_id].shortened)

\* set_can_shorten that leaves its loop after the first pair
set_can_shorten_once(nodes, t_path, t_shortened, sep) ==
    IF t_shortened = <<>> THEN nodes
    ELSE [nodes EXCEPT ![Join(t_path, sep)].can_shorten = TRUE]

(***************************************************************************)
(* set_can_shorten, lines 953-977, on the two lists of segments.           *)
(***************************************************************************)
RECURSIVE set_can_shorten(_, _, _, _)
set_can_shorten(nodes, t_path, t_shortened, sep) ==
    IF t_shortened = <<>> THEN nodes
    ELSE LET tp_path == Join(t_path, sep)
         IN  set_can_shorten([nodes EXCEPT ![tp_path].can_shorten = TRUE],
                             AllButLast(t_path), AllButLast(t_shortened), sep)

(***************************************************************************)
(* find_outliers, lines 557-588 and 616: the branch of the if/elif chain   *)
(* that a file path takes.                                                 *)
(***************************************************************************)
\* the elif chain with the full-path test tried first
outlier_class_path_first(path) ==
    LET _file == Last(Split(path, path_sep))
        parent_file == Join(LastTwo(Split(path, path_sep)), path_sep)
    IN  IF Len(path) > max_path_length THEN "outlier3"
        ELSE IF Len(_file) > max_file_length THEN "outlier1"
        ELSE IF Len(parent_file) > max_parent_file_length THEN "outlier2"
        ELSE "counted"

\* the elif chain with the parent+filename test off by one
outlier_class_parent_file_ge(path) ==
    LET _file == Last(Split(path, path_sep))
        parent_file == Join(LastTwo(Split(path, path_sep)), path_sep)
    IN  IF Len(_file) > max_file_length THEN "outlier1"
        ELSE IF Len(parent_file) >= max_parent_file_length THEN "outlier2"
        ELSE IF Len(path) > max_path_length THEN "outlier3"
        ELSE "counted"

outlier_class(path) ==
    LET _file == Last(Split(path, path_sep))
        parent_file == Join(LastTwo(Split(path, path_sep)), path_sep)
    IN  IF Len(_file) > max_file_length THEN "outlier1"
        ELSE IF Len(parent_file) > max_parent_file_length THEN "outlier2"
        ELSE IF Len(path) > max_path_length THEN "outlier3"
        ELSE "counted"

(***************************************************************************)
(* find_outliers, lines 545-618.  node is the key of the Node in           *)
(* nodes_path.  outcome, shortened and shorten_calls record which branch   *)
(* ran, what shorten_path returned and how often it was invoked.           *)
(***************************************************************************)
find_outliers(self, node, path) ==
    LET _file == Last(Split(path, path_sep))
        parent_file == Join(LastTwo(Split(path, path_sep)), path_sep)
        n == self.nodes_path[node]
        class == outlier_class(path)
    IN  IF class = "outlier1"
        THEN [self EXCEPT
                !.Outlier1_COUNT = @ + 1,
                !.outliers1 = ((self.Outlier1_COUNT + 1) :>
                                 [id |-> self.Outlier1_COUNT + 1,
                                  node_id |-> n.id, filename |-> _file]) @@ @,
                !.nodes_path[node].num_local_outliers1 = @ + 1,
                !.nodes_path[node].has_outliers1 = TRUE,
                !.outcome = "outlier1"]
        ELSE IF class = "outlier2"
        THEN [self EXCEPT
                !.Outlier2_COUNT = @ + 1,
                !.outliers2 = ((self.Outlier2_COUNT + 1) :>
                                 [id |-> self.Outlier2_COUNT + 1,
                                  node_id |-> n.id, parent_file |-> parent_file]) @@ @,
                !.nodes_path[node].num_local_outliers2 = @ + 1,
                !.nodes_path[node].has_outliers2 = TRUE,
                !.outcome = "outlier2"]
        ELSE IF class = "outlier3"
        THEN LET shortened == shorten_path(path, max_path_length, TRUE, path_sep)
                 unable_to_shorten == (shortened = UNABLE_TO_SHORTEN)
                 add3 == need_add_outlier3(self, n.id, shortened)
                 s1 == IF add3
                       THEN [self EXCEPT
                               !.Outlier3_COUNT = @ + 1,
                               !.outliers3 = (n.id :>
                                                [id |-> self.Outlier3_COUNT + 1,
                                                 node_id |-> n.id,
                                                 shortened |-> shortened,
                                                 _file |-> _file]) @@ @]
                       ELSE self
                 s2 == IF unable_to_shorten
                       THEN [s1 EXCEPT
                               !.nodes_path[node].unable_to_shorten = TRUE,
                               !.nodes_path[node].num_unable_to_shorten = 1]
                       ELSE [s1 EXCEPT
                               !.nodes_path =
                                   set_can_shorten(@,
                                       AllButLast(Split(path, path_sep)),
                                       Split(shortened, path_sep), path_sep)]
             IN  [s2 EXCEPT
                    !.nodes_path[node].num_local_outliers3 = @ + 1,
                    !.nodes_path[node].has_outliers3 = TRUE,
                    !.nodes_path[node].shortened = TRUE,
                    !.outcome = "outlier3",
                    !.shortened = shortened,
                    !.shorten_calls = @ + 1]
        ELSE [self EXCEPT
                !.nodes_path[node].local_cnt = @ + 1,
                !.nodes_path[node].total_cnt = @ + 1,
                !.outcome = "counted"]

(***************************************************************************)
(* parse_item_path, lines 466-543.  item is the Item of one data line:     *)
(* its Category and its Item_Path.                                         *)
(***************************************************************************)
parse_item_path(self, item) ==
    LET folder == (item.Category = "Folder")
        path == CleanPath(item.Item_Path, path_sep)
    IN  IF path = <<>> THEN [self EXCEPT !.outcome = "skip"]
        ELSE IF folder
        THEN LET dir_path_list == Split(path, path_sep)
             IN  IF path \notin DOMAIN self.nodes_path
                 THEN [insert_nodes(
                          RegisterNode(self, path,
                              NewNode(self.Node_COUNT, Len(dir_path_list), Len(path))),
                          path, path_sep)
                       EXCEPT !.outcome = "folder", !.path = path]
                 ELSE [self EXCEPT !.outcome = "folder", !.path = path]
        ELSE LET _file == Last(Split(path, path_sep))
                 dir_path_list == AllButLast(Split(path, path_sep))
                 dir_path == Join(dir_path_list, path_sep)
                 _file_length == Len(_file)
                 path_length == Len(path)
                 s0 == [self EXCEPT !.dir_tree = add(@, dir_path_list)]
                 s1 == IF dir_path \in DOMAIN s0.nodes_path
                       THEN [s0 EXCEPT
                               !.nodes_path[dir_path].longest_fn_length =
                                   IF @ < _file_length THEN _file_length ELSE @,
                               !.nodes_path[dir_path].longest_fp_length =
                                   IF @ < path_length THEN path_length ELSE @]
                       ELSE insert_nodes(
                               RegisterNode(s0, dir_path,
                                   [NewNode(s0.Node_COUNT, Len(dir_path_list), Len(dir_path))
                                    EXCEPT !.longest_fn_length = _file_length,
                                           !.longest_fp_length = path_length]),
                               dir_path, path_sep)
             IN  [find_outliers(s1, dir_path, path) EXCEPT !.path = path]

\* the directory a file entry is filed under (lines 510-517), <<>> for the root
DirPathOf(path, sep) == Join(AllButLast(Split(path, sep)), sep)

(***************************************************************************)
(* The directory tree: node.keys() of the branch at key list `at`.  A      *)
(* Python 2 dict lists its keys in an order fixed by the keys' hashes;     *)
(* key_order stands for that order.                                        *)
(***************************************************************************)
ChildKeys(tree, at) ==
    {q[Len(q)] : q \in {r \in tree : Len(r) = Len(at) + 1 /\ SubSeq(r, 1, Len(at)) = at}}

RECURSIVE SortKeys(_, _)
SortKeys(S, order) ==
    IF S = {} THEN <<>>
    ELSE LET k == CHOOSE x \in S :
                      \A y \in S \ {x} :
                          IF order = "asc" THEN StrLess(x, y) ELSE StrLess(y, x)
         IN  <<k>> \o SortKeys(S \ {k}, order)

Keys(tree, at) == SortKeys(ChildKeys(tree, at), key_order)

(***************************************************************************)
(* count_nodes / count_child_nodes, lines 1516-1525.                       *)
(***************************************************************************)
count_child_nodes(tree, at) ==
    Cardinality({r \in tree : Len(r) > Len(at) /\ SubSeq(r, 1, Len(at)) = at})

(***************************************************************************)
(* walk_paths, lines 1527-1543: the list of (path, tree node) it yields.   *)
(* The path is built with a literal backslash, whatever path_sep is.       *)
(***************************************************************************)
RECURSIVE walk_keys(_, _, _, _)
walk_keys(tree, at, path, ks) ==
    IF ks = <<>> THEN <<>>
    ELSE LET k == Head(ks)
             p == path \o <<BSL>> \o k
         IN  <<[path |-> p, at |-> Append(at, k)]>>
             \o walk_keys(tree, Append(at, k), p, Keys(tree, Append(at, k)))
             \o walk_keys(tree, at, path, Tail(ks))

walk_paths(tree) == walk_keys(tree, <<>>, <<>>, Keys(tree, <<>>))

(***************************************************************************)
(* update_parent_attributes, lines 715-738.  path is get_node_path(node).  *)
(***************************************************************************)
\* the propagation without the addition to the parent's total_cnt
update_parent_attributes_subdir_only(nodes, path) ==
    LET parent_path_list == AllButLast(Split(path, path_sep))
        parent_path == Join(parent_path_list, path_sep)
        node == nodes[path]
    IN  IF parent_path_list = <<>> THEN nodes
        ELSE [nodes EXCEPT
                ![parent_path].has_outliers1 = @ \/ node.has_outliers1,
                ![parent_path].has_outliers2 = @ \/ node.has_outliers2,
                ![parent_path].has_outliers3 = @ \/ node.has_outliers3,
                ![parent_path].longest_fn_length =
                    IF @ < node.longest_fn_length THEN node.longest_fn_length ELSE @,
                ![parent_path].longest_fp_length =
                    IF @ < node.longest_fp_length THEN node.longest_fp_length ELSE @,
                ![parent_path].subdir_cnt = @ + node.total_cnt,
                ![parent_path].num_unable_to_shorten = @ + node.num_unable_to_shorten]

update_parent_attributes(nodes, path) ==
    LET parent_path_list == AllButLast(Split(path, path_sep))
        parent_path == Join(parent_path_list, path_sep)
        node == nodes[path]
    IN  IF parent_path_list = <<>> THEN nodes
        ELSE [nodes EXCEPT
                ![parent_path].has_outliers1 = @ \/ node.has_outliers1,
                ![parent_path].has_outliers2 = @ \/ node.has_outliers2,
                ![parent_path].has_outliers3 = @ \/ node.has_outliers3,
                ![parent_path].longest_fn_length =
                    IF @ < node.longest_fn_length THEN node.longest_fn_length ELSE @,
                ![parent_path].longest_fp_length =
                    IF @ < node.longest_fp_length THEN node.longest_fp_length ELSE @,
                ![parent_path].subdir_cnt = @ + node.total_cnt,
                ![parent_path].total_cnt = @ + node.total_cnt,
                ![parent_path].num_unable_to_shorten = @ + node.num_unable_to_shorten]

(***************************************************************************)
(* depth_first_reverse_update, lines 1545-1563: the Node ids in the order  *)
(* of the two nested loops (depths descending, each depth's list in        *)
(* insertion order).                                                       *)
(***************************************************************************)
\* the sweep taken from the shallowest depth to the deepest
RECURSIVE SweepOrderAscending(_, _)
SweepOrderAscending(depths, ks) ==
    IF ks = {} THEN <<>>
    ELSE LET k == CHOOSE x \in ks : \A y \in ks : x <= y
         IN  depths[k] \o SweepOrderAscending(depths, ks \ {k})

RECURSIVE SweepOrder(_, _)
SweepOrder(depths, ks) ==
    IF ks = {} THEN <<>>
    ELSE LET k == CHOOSE x \in ks : \A y \in ks : y <= x
         IN  depths[k] \o SweepOrder(depths, ks \ {k})

(***************************************************************************)
(* update_node_child_cnts, lines 1118-1132, over the list walk_paths       *)
(* yields.  A path that is no key of nodes_path raises KeyError: ok is     *)
(* then false and the rest of the loop does not run.                       *)
(***************************************************************************)
\* the plus-child counts with the total taken from the plain subdir_cnt
child_cnts_of_plain_subdir(node, child_node_cnt) ==
    LET local_plus_child_cnt == node.local_cnt + child_node_cnt
        subdir_plus_child_cnt == node.subdir_cnt + child_node_cnt
        total_plus_child_cnt == local_plus_child_cnt + node.subdir_cnt
    IN  [node EXCEPT !.child_node_cnt = child_node_cnt,
                     !.local_plus_child_cnt = local_plus_child_cnt,
                     !.subdir_plus_child_cnt = subdir_plus_child_cnt,
                     !.total_plus_child_cnt = total_plus_child_cnt]

child_cnts_of(node, child_node_cnt) ==
    LET local_plus_child_cnt == node.local_cnt + child_node_cnt
        subdir_plus_child_cnt == node.subdir_cnt + child_node_cnt
        total_plus_child_cnt == local_plus_child_cnt + subdir_plus_child_cnt
    IN  [node EXCEPT !.child_node_cnt = child_node_cnt,
                     !.local_plus_child_cnt = local_plus_child_cnt,
                     !.subdir_plus_child_cnt = subdir_plus_child_cnt,
                     !.total_plus_child_cnt = total_plus_child_cnt]

RECURSIVE update_node_child_cnts(_, _, _)
update_node_child_cnts(nodes, tree, items) ==
    IF items = <<>> THEN [nodes |-> nodes, ok |-> TRUE]
    ELSE LET key == LStrip(Head(items).path, path_sep)
         IN  IF key \notin DOMAIN nodes THEN [nodes |-> nodes, ok |-> FALSE]
             ELSE update_node_child_cnts(
                      [nodes EXCEPT ![key] =
                          child_cnts_of(@, count_child_nodes(tree, Head(items).at))],
                      tree, Tail(items))

(***************************************************************************)
(* The tree walks of the report phase.  Each takes and returns an          *)
(* accumulator: the Nodes (a walk may set wrote_over_limit), the (path,    *)
(* Node) pairs yielded so far (as paths), the paths of the WARNING rows    *)
(* 'Directory local file count over limit' written so far, the             *)
(* directories looked up so far, and ok, false once a lookup in            *)
(* nodes_path has raised KeyError.                                         *)
(***************************************************************************)
Acc(nodes) == [nodes |-> nodes, yields |-> <<>>, warns |-> <<>>, visited |-> <<>>, ok |-> TRUE]

Yield(acc, path) == [acc EXCEPT !.yields = Append(@, path)]

Warn(acc, path) == [acc EXCEPT !.warns = Append(@, path)]

Visit(acc, path) == [acc EXCEPT !.visited = Append(@, path)]

\* self.path_sep.join([path,k]).lstrip(self.path_sep)
TPath(path, k) == LStrip(Join(<<path, k>>, path_sep), path_sep)

(***************************************************************************)
(* batch_search, lines 1238-1291.                                          *)
(***************************************************************************)
RECURSIVE batch_search(_, _, _, _), batch_search_keys(_, _, _, _, _)
batch_search(acc, tree, at, path) ==
    IF ~acc.ok THEN acc
    ELSE IF Keys(tree, at) = <<>>
    THEN IF path \notin DOMAIN acc.nodes THEN acc
         ELSE IF acc.nodes[path].local_plus_child_cnt > file_limit
              THEN Warn(acc, path)
              ELSE acc
    ELSE batch_search_keys(acc, tree, at, path, Keys(tree, at))

batch_search_keys(acc, tree, at, path, ks) ==
    IF ks = <<>> \/ ~acc.ok THEN acc
    ELSE LET k == Head(ks)
             t_path == TPath(path, k)
         IN  IF t_path \notin DOMAIN acc.nodes THEN [acc EXCEPT !.ok = FALSE]
             ELSE LET node_obj == acc.nodes[t_path]
                      a1 == Visit(acc, t_path)
                      over(a) == IF node_obj.local_plus_child_cnt > file_limit
                                 THEN Warn(a, t_path) ELSE a
                  IN  IF search_local
                      THEN LET a2 == IF node_obj.local_plus_child_cnt <= file_limit
                                     THEN Yield(a1, t_path) ELSE a1
                           IN  batch_search_keys(
                                   batch_search(over(a2), tree, Append(at, k), t_path),
                                   tree, at, path, Tail(ks))
                      ELSE IF node_obj.total_plus_child_cnt <= file_limit
                      THEN batch_search_keys(Yield(a1, t_path), tree, at, path, Tail(ks))
                      ELSE batch_search_keys(
                               batch_search(over(a1), tree, Append(at, k), t_path),
                               tree, at, path, Tail(ks))

(***************************************************************************)
(* search_batchable, lines 1293-1354.                                      *)
(***************************************************************************)
WarnOnce(acc, path) ==
    IF acc.nodes[path].batchable = "False" /\ ~acc.nodes[path].wrote_over_limit
    THEN [Warn(acc, path) EXCEPT !.nodes[path].wrote_over_limit = TRUE]
    ELSE acc

RECURSIVE search_batchable(_, _, _, _), search_batchable_keys(_, _, _, _, _)
search_batchable(acc, tree, at, path) ==
    IF ~acc.ok THEN acc
    ELSE IF Keys(tree, at) = <<>>
    THEN IF path \notin DOMAIN acc.nodes THEN acc ELSE WarnOnce(acc, path)
    ELSE IF path # <<>> /\ path # <<path_sep>> /\ path \notin DOMAIN acc.nodes
    THEN [acc EXCEPT !.ok = FALSE]
    ELSE IF path # <<>> /\ path # <<path_sep>> /\ acc.nodes[path].trimmed
    THEN acc
    ELSE search_batchable_keys(acc, tree, at, path, Keys(tree, at))

search_batchable_keys(acc, tree, at, path, ks) ==
    IF ks = <<>> \/ ~acc.ok THEN acc
    ELSE LET k == Head(ks)
             t_path == TPath(path, k)
         IN  IF t_path \notin DOMAIN acc.nodes THEN [acc EXCEPT !.ok = FALSE]
             ELSE LET node_obj == acc.nodes[t_path]
                      a1 == Visit(acc, t_path)
                  IN  IF node_obj.trimmed
                      THEN search_batchable_keys(a1, tree, at, path, Tail(ks))
                      ELSE IF node_obj.batchable = "True"
                      THEN search_batchable_keys(Yield(a1, t_path), tree, at, path, Tail(ks))
                      ELSE search_batchable_keys(
                               search_batchable(WarnOnce(a1, t_path), tree,
                                                Append(at, k), t_path),
                               tree, at, path, Tail(ks))

(***************************************************************************)
(* search_trimmable, lines 1356-1377, and search_unable_shorten, lines     *)
(* 1379-1399: the same walk, on the flag trimmable or unable_to_shorten.   *)
(***************************************************************************)
RECURSIVE search_flag_keys(_, _, _, _, _, _)
search_flag_keys(acc, tree, at, path, ks, flag) ==
    IF ks = <<>> \/ ~acc.ok THEN acc
    ELSE LET k == Head(ks)
             t_path == TPath(path, k)
         IN  IF t_path \notin DOMAIN acc.nodes THEN [acc EXCEPT !.ok = FALSE]
             ELSE LET a1 == Visit(acc, t_path)
                  IN  IF acc.nodes[t_path][flag]
                      THEN search_flag_keys(Yield(a1, t_path), tree, at, path, Tail(ks), flag)
                      ELSE search_flag_keys(
                               search_flag_keys(a1, tree, Append(at, k), t_path,
                                                Keys(tree, Append(at, k)), flag),
                               tree, at, path, Tail(ks), flag)

\* a selector that yields every trimmable directory of the tree
search_trimmable_all(acc, tree, at, path) ==
    LET stripped == [i \in 1..Len(walk_paths(tree)) |-> LStrip(walk_paths(tree)[i].path, path_sep)]
        IsTrimmable(p) == p \in DOMAIN acc.nodes /\ acc.nodes[p].trimmable
    IN  [acc EXCEPT !.yields = SelectSeq(stripped, IsTrimmable)]

search_trimmable(acc, tree, at, path) ==
    search_flag_keys(acc, tree, at, path, Keys(tree, at), "trimmable")

search_unable_shorten(acc, tree, at, path) ==
    search_flag_keys(acc, tree, at, path, Keys(tree, at), "unable_to_shorten")

(***************************************************************************)
(* analyze_trimmable, lines 1442-1504: for every leaf of the tree, the     *)
(* while loop up its chain of ancestors (trim_chain), then the for loop    *)
(* over the walk (analyze_trimmable).                                      *)
(***************************************************************************)
\* trim_chain that marks a directory without looking at can_shorten
RECURSIVE trim_chain_any(_, _)
trim_chain_any(acc, path_list) ==
    IF path_list = <<>> THEN acc
    ELSE LET path == Join(path_list, path_sep)
         IN  IF path \notin DOMAIN acc.nodes THEN [acc EXCEPT !.ok = FALSE]
             ELSE LET node == acc.nodes[path]
                  IN  IF node.local_plus_child_cnt = 0 /\ ~node.shortened
                      THEN trim_chain_any(acc, AllButLast(path_list))
                      ELSE IF node.local_plus_child_cnt <= file_limit
                      THEN trim_chain_any([acc EXCEPT !.nodes[path].trimmable = TRUE],
                                          AllButLast(path_list))
                      ELSE [acc EXCEPT !.nodes[path].trimmable = FALSE]

RECURSIVE trim_chain(_, _)
trim_chain(acc, path_list) ==
    IF path_list = <<>> THEN acc
    ELSE LET path == Join(path_list, path_sep)
         IN  IF path \notin DOMAIN acc.nodes THEN [acc EXCEPT !.ok = FALSE]
             ELSE LET node == acc.nodes[path]
                  IN  IF node.local_plus_child_cnt = 0 /\ ~node.shortened
                      THEN trim_chain(acc, AllButLast(path_list))
                      ELSE IF ~node.can_shorten THEN acc
                      ELSE IF node.local_plus_child_cnt <= file_limit
                      THEN trim_chain([acc EXCEPT !.nodes[path].trimmable = TRUE],
                                      AllButLast(path_list))
                      ELSE IF ~node.wrote_over_limit
                      THEN [Warn(acc, path) EXCEPT
                              !.nodes[path].trimmable = FALSE,
                              !.nodes[path].wrote_over_limit = TRUE]
                      ELSE [acc EXCEPT !.nodes[path].trimmable = FALSE]

RECURSIVE analyze_trimmable(_, _, _)
analyze_trimmable(acc, tree, items) ==
    IF items = <<>> \/ ~acc.ok THEN acc
    ELSE IF count_child_nodes(tree, Head(items).at) # 0
    THEN analyze_trimmable(acc, tree, Tail(items))
    ELSE analyze_trimmable(
             trim_chain(acc, Split(LStrip(Head(items).path, path_sep), path_sep)),
             tree, Tail(items))

(***************************************************************************)
(* analyze_batchable, lines 1401-1440.                                     *)
(***************************************************************************)
RECURSIVE batch_chain(_, _)
batch_chain(acc, path_list) ==
    IF path_list = <<>> THEN acc
    ELSE LET path == Join(path_list, path_sep)
         IN  IF path \notin DOMAIN acc.nodes THEN [acc EXCEPT !.ok = FALSE]
             ELSE LET node == acc.nodes[path]
                  IN  IF node.local_plus_child_cnt = 0 /\ ~node.shortened
                      THEN batch_chain(acc, AllButLast(path_list))
                      ELSE IF node.batchable = "False" THEN acc
                      ELSE IF node.local_plus_child_cnt <= file_limit
                      THEN batch_chain([acc EXCEPT !.nodes[path].batchable = "True"],
                                       AllButLast(path_list))
                      ELSE [acc EXCEPT !.nodes[path].batchable = "False"]

RECURSIVE analyze_batchable(_, _, _)
analyze_batchable(acc, tree, items) ==
    IF items = <<>> \/ ~acc.ok THEN acc
    ELSE IF count_child_nodes(tree, Head(items).at) # 0
    THEN analyze_batchable(acc, tree, Tail(items))
    ELSE analyze_batchable(
             batch_chain(acc, Split(LStrip(Head(items).path, path_sep), path_sep)),
             tree, Tail(items))

\* node.update({'trimmed':True}) for every pair search_trimmable yielded (line 831)
RECURSIVE mark_trimmed(_, _)
mark_trimmed(nodes, paths) ==
    IF paths = <<>> THEN nodes
    ELSE mark_trimmed([nodes EXCEPT ![Head(paths)].trimmed = TRUE], Tail(paths))

\* the rows of the batch file for the pairs the batch walk yielded (lines 860-877)
batch_row(nodes, path) ==
    [Directory_Path |-> path,
     Num_Local_Files |-> nodes[path].local_plus_child_cnt,
     Num_Subdirectory_Files |-> nodes[path].subdir_plus_child_cnt,
     Total_Files |-> nodes[path].total_plus_child_cnt]

\* a row of the warnings file (lines 778-784, 1254-1259)
warning_row(message, path) == [Message |-> message, Path |-> path]

OVER_LIMIT == "Directory local file count over limit"
CANNOT_SHORTEN == "Path cannot be shortened"

(***************************************************************************)
(* The inputs: the values the options of the command line take and the     *)
(* data lines a listing holds.  Segments a (1 character) and bb (2), file  *)
(* names f (1) and gggg (4), so that with the limits below a file can fall *)
(* in each of the four classes and a path can be shortened or not.         *)
(***************************************************************************)
PathSeps == {BSL}
FileLimits == {1, 2}
KeyOrders == {"asc", "desc"}

\* <<max_file_length, max_parent_file_length, max_path_length>>
Thresholds == {<<3, 4, 5>>, <<4, 4, 5>>, <<4, 6, 5>>, <<3, 4, 7>>, <<3, 4, 3>>}

sA == <<"a">>
sBB == <<"b", "b">>
fF == <<"f">>
fG == <<"g", "g", "g", "g">>

\* an Item_Path: the prefix X that the forensic tool prepends, then the path
Raw(segments) == <<"X", BSL>> \o Join(segments, BSL)

File(segments) == [Category |-> "File", Item_Path |-> Raw(segments)]

Folder(segments) == [Category |-> "Folder", Item_Path |-> Raw(segments)]

Items ==
    { File(<<sA, fF>>), File(<<sA, sA, fF>>), File(<<sA, sA, sA, fF>>),
      File(<<sA, sA, sBB, fF>>), File(<<sA, sBB, fF>>), File(<<sBB, fF>>),
      File(<<sA, fG>>), File(<<fF>>),
      Folder(<<sA, sBB>>), Folder(<<sBB, sA>>),
      \* an Item_Path that starts with the separator, and one without any
      [Category |-> "File", Item_Path |-> <<BSL, "X", BSL>> \o Join(<<sA, fF>>, BSL)],
      [Category |-> "File", Item_Path |-> <<"X">>] }

NoItem == [Category |-> "", Item_Path |-> <<>>]

NoLast ==
    [line |-> 0, item |-> NoItem, outcome |-> "none", path |-> <<>>,
     shortened |-> <<>>, shorten_calls |-> 0]

NoCall == [fn |-> "none"]

NoRun == [run |-> "none"]

\* the report files in the order prepare_batch_results opens them, lines
\* 754-758, and flushes and closes them, lines 902-911
REPORT_FILES == <<"batch", "outliers1", "outliers2", "outliers3", "warnings">>

Unopened == [i \in 1..Len(REPORT_FILES) |-> "unopened"]

(***************************************************************************)
(* Analyzer.__init__, lines 307-394, then the header line read by process, *)
(* lines 413-416.                                                          *)
(***************************************************************************)
InitWith(seps, thresholds, limits, locals, orders) ==
    /\ path_sep \in seps
    /\ \E t \in thresholds :
          /\ max_file_length = t[1]
          /\ max_parent_file_length = t[2]
          /\ max_path_length = t[3]
    /\ file_limit \in limits
    /\ search_local \in locals
    /\ key_order \in orders
    /\ pc = "ingest"
    /\ file_line_cnt = 1
    /\ Node_COUNT = 0
    /\ Outlier1_COUNT = 0
    /\ Outlier2_COUNT = 0
    /\ Outlier3_COUNT = 0
    /\ dir_tree = {}
    /\ nodes_path = EmptyDict
    /\ nodes_id = EmptyDict
    /\ nodes_depth = EmptyDict
    /\ outliers1 = EmptyDict
    /\ outliers2 = EmptyDict
    /\ outliers3 = EmptyDict
    /\ sweep_todo = <<>>
    /\ warnings_rows = <<>>
    /\ trimmed_rows = <<>>
    /\ batch_rows = <<>>
    /\ walk = <<>>
    /\ last = NoLast
    /\ ingested = EmptyDict
    /\ call = NoCall
    /\ listing = <<>>
    /\ first_run = NoRun
    /\ handles = Unopened

Init == InitWith(PathSeps, Thresholds, {1}, BOOLEAN, {"asc"})

\* the paths of the file entries read so far for a directory, in the order read
Ingested(dir_path) == IF dir_path \in DOMAIN ingested THEN ingested[dir_path] ELSE <<>>

(***************************************************************************)
(* process, lines 418-421: one turn of the loop over the data lines.       *)
(***************************************************************************)
ReadLine(item) ==
    /\ pc = "ingest"
    /\ LET s == parse_item_path(Self, item)
           dir_path == DirPathOf(s.path, path_sep)
       IN  /\ Node_COUNT' = s.Node_COUNT
           /\ Outlier1_COUNT' = s.Outlier1_COUNT
           /\ Outlier2_COUNT' = s.Outlier2_COUNT
           /\ Outlier3_COUNT' = s.Outlier3_COUNT
           /\ dir_tree' = s.dir_tree
           /\ nodes_path' = s.nodes_path
           /\ nodes_id' = s.nodes_id
           /\ nodes_depth' = s.nodes_depth
           /\ outliers1' = s.outliers1
           /\ outliers2' = s.outliers2
           /\ outliers3' = s.outliers3
           /\ last' = [line |-> file_line_cnt, item |-> item, outcome |-> s.outcome,
                       path |-> s.path, shortened |-> s.shortened,
                       shorten_calls |-> s.shorten_calls]
           /\ ingested' = IF s.outcome \in {"skip", "folder"} THEN ingested
                          ELSE (dir_path :> Append(Ingested(dir_path), s.path)) @@ ingested
           /\ listing' = IF first_run = NoRun
                         THEN Append(listing, [item |-> item, outcome |-> s.outcome])
                         ELSE listing
    /\ file_line_cnt' = file_line_cnt + 1
    /\ UNCHANGED <<config, pc, sweep_todo, warnings_rows, trimmed_rows, batch_rows,
                   walk, call, first_run, handles>>

(***************************************************************************)
(* process, lines 425-431: the listing is exhausted;                       *)
(* depth_first_reverse_update sorts the depths, lines 1546-1547.           *)
(***************************************************************************)
EndOfInput ==
    /\ pc = "ingest"
    /\ pc' = "sweep"
    /\ sweep_todo' = SweepOrder(nodes_depth, DOMAIN nodes_depth)
    /\ UNCHANGED <<config, file_line_cnt, Node_COUNT, Outlier1_COUNT, Outlier2_COUNT,
                   Outlier3_COUNT, dir_tree, nodes_path, nodes_id, nodes_depth,
                   outliers1, outliers2, outliers3, warnings_rows, trimmed_rows,
                   batch_rows, walk, last, ingested, call,
                   listing, first_run, handles>>

(***************************************************************************)
(* depth_first_reverse_update, lines 1555-1557: one turn of the inner      *)
(* loop.                                                                   *)
(***************************************************************************)
SweepStep ==
    /\ pc = "sweep"
    /\ sweep_todo # <<>>
    /\ nodes_path' = update_parent_attributes(nodes_path, nodes_id[Head(sweep_todo)])
    /\ sweep_todo' = Tail(sweep_todo)
    /\ UNCHANGED <<config, pc, file_line_cnt, Node_COUNT, Outlier1_COUNT, Outlier2_COUNT,
                   Outlier3_COUNT, dir_tree, nodes_id, nodes_depth,
                   outliers1, outliers2, outliers3, warnings_rows, trimmed_rows,
                   batch_rows, walk, last, ingested, call,
                   listing, first_run, handles>>

(***************************************************************************)
(* process, line 436: update_node_child_cnts, once the sweep is over.      *)
(***************************************************************************)
UpdateNodeChildCnts ==
    /\ pc = "sweep"
    /\ sweep_todo = <<>>
    /\ LET r == update_node_child_cnts(nodes_path, dir_tree, walk_paths(dir_tree))
       IN  /\ nodes_path' = r.nodes
           /\ pc' = IF r.ok THEN "warnings" ELSE "KeyError"
    /\ UNCHANGED <<config, file_line_cnt, Node_COUNT, Outlier1_COUNT, Outlier2_COUNT,
                   Outlier3_COUNT, dir_tree, nodes_id, nodes_depth,
                   outliers1, outliers2, outliers3, sweep_todo, warnings_rows,
                   trimmed_rows, batch_rows, walk, last, ingested, call,
                   listing, first_run, handles>>

(***************************************************************************)
(* prepare_batch_results, lines 774-785: a 'Path cannot be shortened' row  *)
(* for every pair search_unable_shorten yields.                            *)
(***************************************************************************)
RECURSIVE unable_rows(_)
unable_rows(paths) ==
    IF paths = <<>> THEN <<>>
    ELSE LET path == Head(paths)
             outlier == outliers3[nodes_path[path].id]
         IN  <<warning_row(CANNOT_SHORTEN, Join(<<path, outlier._file>>, path_sep))>>
             \o unable_rows(Tail(paths))

over_limit_rows(paths) == [i \in 1..Len(paths) |-> warning_row(OVER_LIMIT, paths[i])]

ReportFrame ==
    UNCHANGED <<config, file_line_cnt, Node_COUNT, Outlier1_COUNT, Outlier2_COUNT,
                Outlier3_COUNT, dir_tree, nodes_id, nodes_depth,
                outliers1, outliers2, outliers3, sweep_todo, last, ingested, call,
                listing, first_run, handles>>

WriteUnableToShorten ==
    /\ pc = "warnings"
    /\ LET r == search_unable_shorten(Acc(nodes_path), dir_tree, <<>>, <<path_sep>>)
       IN  /\ warnings_rows' = warnings_rows \o unable_rows(r.yields)
           /\ pc' = IF r.ok THEN "analyze_trimmable" ELSE "KeyError"
    /\ UNCHANGED <<nodes_path, trimmed_rows, batch_rows, walk>>
    /\ ReportFrame

(***************************************************************************)
(* prepare_batch_results, line 791: analyze_trimmable.                     *)
(***************************************************************************)
AnalyzeTrimmable ==
    /\ pc = "analyze_trimmable"
    /\ LET r == analyze_trimmable(Acc(nodes_path), dir_tree, walk_paths(dir_tree))
       IN  /\ nodes_path' = r.nodes
           /\ warnings_rows' = warnings_rows \o over_limit_rows(r.warns)
           /\ pc' = IF r.ok THEN "search_trimmable" ELSE "KeyError"
    /\ UNCHANGED <<trimmed_rows, batch_rows, walk>>
    /\ ReportFrame

(***************************************************************************)
(* prepare_batch_results, lines 810-832: the loop over search_trimmable,   *)
(* which writes a row of the shortened file and marks the Node trimmed.    *)
(***************************************************************************)
SearchTrimmable ==
    /\ pc = "search_trimmable"
    /\ LET r == search_trimmable(Acc(nodes_path), dir_tree, <<>>, <<path_sep>>)
       IN  /\ nodes_path' = mark_trimmed(nodes_path, r.yields)
           /\ trimmed_rows' = trimmed_rows \o r.yields
           /\ pc' = IF r.ok THEN "batch" ELSE "KeyError"
    /\ UNCHANGED <<warnings_rows, batch_rows, walk>>
    /\ ReportFrame

(***************************************************************************)
(* prepare_batch_results, lines 855-878: the batch walk, batch_search or   *)
(* (search_local) analyze_batchable then search_batchable.                 *)
(***************************************************************************)
search_fn(nodes, tree) ==
    IF search_local
    THEN LET a == analyze_batchable(Acc(nodes), tree, walk_paths(tree))
         IN  search_batchable(a, tree, <<>>, <<path_sep>>)
    ELSE batch_search(Acc(nodes), tree, <<>>, <<path_sep>>)

BatchSearch ==
    /\ pc = "batch"
    /\ LET r == search_fn(nodes_path, dir_tree)
       IN  /\ nodes_path' = r.nodes
           /\ warnings_rows' = warnings_rows \o over_limit_rows(r.warns)
           /\ batch_rows' = batch_rows \o
                  [i \in 1..Len(r.yields) |-> batch_row(r.nodes, r.yields[i])]
           /\ walk' = r.visited
           /\ pc' = IF r.ok THEN "done" ELSE "KeyError"
    /\ UNCHANGED <<trimmed_rows>>
    /\ ReportFrame

Next ==
    \/ \E item \in Items : file_line_cnt <= MaxLines /\ ReadLine(item)
    \/ EndOfInput
    \/ SweepStep
    \/ UpdateNodeChildCnts
    \/ WriteUnableToShorten
    \/ AnalyzeTrimmable
    \/ SearchTrimmable
    \/ BatchSearch

Spec == Init /\ [][Next]_vars

(***************************************************************************)
(* The same pipeline over longer inputs from a smaller vocabulary, with    *)
(* both file limits and both key orders, so that the selection passes meet *)
(* directories over the limit below trimmed and batchable ones.            *)
(***************************************************************************)
MaxSelectLines == 4

SelectThresholds == {<<3, 4, 5>>, <<3, 4, 7>>}

SelectItems ==
    { File(<<sA, fF>>), File(<<sA, sA, sA, fF>>), File(<<sA, sA, sBB, fF>>),
      File(<<sA, sBB, fF>>) }

InitSelect == InitWith(PathSeps, SelectThresholds, FileLimits, BOOLEAN, KeyOrders)

NextSelect ==
    \/ \E item \in SelectItems : file_line_cnt <= MaxSelectLines /\ ReadLine(item)
    \/ EndOfInput
    \/ SweepStep
    \/ UpdateNodeChildCnts
    \/ WriteUnableToShorten
    \/ AnalyzeTrimmable
    \/ SearchTrimmable
    \/ BatchSearch

SpecSelect == InitSelect /\ [][NextSelect]_vars

(***************************************************************************)
(* The same pipeline, configurations and vocabulary over inputs of up to   *)
(* three lines, for the properties of the trim and batch selection that    *)
(* are checked exhaustively.                                               *)
(***************************************************************************)
MaxTrimLines == 3

NextTrim ==
    \/ \E item \in SelectItems : file_line_cnt <= MaxTrimLines /\ ReadLine(item)
    \/ EndOfInput
    \/ SweepStep
    \/ UpdateNodeChildCnts
    \/ WriteUnableToShorten
    \/ AnalyzeTrimmable
    \/ SearchTrimmable
    \/ BatchSearch

SpecTrim == InitSelect /\ [][NextTrim]_vars

(***************************************************************************)
(* Directories whose names sort before and after the string                *)
(* 'UNABLE_TO_SHORTEN', each with a file that can be shortened (f) and one *)
(* that cannot (gggg), under max_parent_file_length 6 > max_path_length 4. *)
(***************************************************************************)
MaxRowsLines == 3

sUpperA == <<"A">>
sUpperB == <<"B">>

RowsItems ==
    { File(<<sUpperA, sUpperB, fF>>), File(<<sUpperA, sUpperB, fG>>),
      File(<<sA, sA, fF>>), File(<<sA, sA, fG>>) }

InitRows == InitWith(PathSeps, {<<4, 6, 4>>}, {1}, BOOLEAN, {"asc"})

NextRows ==
    \/ \E item \in RowsItems : file_line_cnt <= MaxRowsLines /\ ReadLine(item)
    \/ EndOfInput
    \/ SweepStep
    \/ UpdateNodeChildCnts
    \/ WriteUnableToShorten
    \/ AnalyzeTrimmable
    \/ SearchTrimmable
    \/ BatchSearch

SpecRows == InitRows /\ [][NextRows]_vars

(***************************************************************************)
(* Thresholds with max_parent_file_length <= max_path_length, and files    *)
(* whose full path is over max_path_length, one of them in a directory     *)
(* whose name is the string shorten_path returns for a failure.            *)
(***************************************************************************)
MaxSentinelLines == 3

SentinelThresholds == {<<3, 4, 5>>, <<4, 19, 19>>}

SentinelItems ==
    { File(<<sA, UNABLE_TO_SHORTEN, fF>>), File(<<sA, sA, sA, fF>>),
      File(<<sA, sBB, fF>>), File(<<sA, fF>>) }

InitSentinel == InitWith(PathSeps, SentinelThresholds, {1}, BOOLEAN, {"asc"})

NextSentinel ==
    \/ \E item \in SentinelItems : file_line_cnt <= MaxSentinelLines /\ ReadLine(item)
    \/ EndOfInput
    \/ SweepStep
    \/ UpdateNodeChildCnts
    \/ WriteUnableToShorten
    \/ AnalyzeTrimmable
    \/ SearchTrimmable
    \/ BatchSearch

SpecSentinel == InitSentinel /\ [][NextSentinel]_vars

(***************************************************************************)
(* batch_search called on its own, lines 1238-1291, on the registries as   *)
(* update_node_child_cnts leaves them, with self.search_local false or     *)
(* true.                                                                   *)
(***************************************************************************)
MaxSearchLines == 3

CallBatchSearch ==
    /\ pc = "warnings"
    /\ call = NoCall
    /\ LET r == batch_search(Acc(nodes_path), dir_tree, <<>>, <<path_sep>>)
       IN  call' = [fn |-> "batch_search", yields |-> r.yields,
                    visited |-> r.visited, warns |-> r.warns, ok |-> r.ok]
    /\ pc' = "called"
    /\ UNCHANGED <<config, file_line_cnt, Node_COUNT, Outlier1_COUNT, Outlier2_COUNT,
                   Outlier3_COUNT, dir_tree, nodes_path, nodes_id, nodes_depth,
                   outliers1, outliers2, outliers3, sweep_todo, warnings_rows,
                   trimmed_rows, batch_rows, walk, last, ingested,
                   listing, first_run, handles>>

NextSearch ==
    \/ \E item \in SelectItems : file_line_cnt <= MaxSearchLines /\ ReadLine(item)
    \/ EndOfInput
    \/ SweepStep
    \/ UpdateNodeChildCnts
    \/ CallBatchSearch

SpecSearch == InitSelect /\ [][NextSearch]_vars

(***************************************************************************)
(* shorten_path called on its own, lines 915-936, with the path, the       *)
(* length and get_parent_path drawn from small sets.                       *)
(***************************************************************************)
MaxFnLength == 8

FnSegments == {sA, sBB, fF, fG, <<>>}

FnPaths ==
    { Join(l, BSL) : l \in (FnSegments \X FnSegments \X FnSegments)
                           \cup (FnSegments \X FnSegments)
                           \cup { <<x>> : x \in FnSegments } }

CallShortenPath(path, length, get_parent_path) ==
    /\ call = NoCall
    /\ call' = [fn |-> "shorten_path", path |-> path, length |-> length,
                get_parent_path |-> get_parent_path,
                result |-> shorten_path(path, length, get_parent_path, path_sep)]
    /\ UNCHANGED <<config, pc, file_line_cnt, Node_COUNT, Outlier1_COUNT,
                   Outlier2_COUNT, Outlier3_COUNT, dir_tree, nodes_path, nodes_id,
                   nodes_depth, outliers1, outliers2, outliers3, sweep_todo,
                   warnings_rows, trimmed_rows, batch_rows, walk, last, ingested,
                   listing, first_run, handles>>

InitFn == InitWith(PathSeps, {<<3, 4, 5>>}, {1}, {FALSE}, {"asc"})

NextFn ==
    \E path \in FnPaths, length \in 0..MaxFnLength, get_parent_path \in BOOLEAN :
        CallShortenPath(path, length, get_parent_path)

SpecFn == InitFn /\ [][NextFn]_vars

(***************************************************************************)
(* The pipeline with the separator option set, line 343: the backslash or  *)
(* the forward slash, over lines written with either.                      *)
(***************************************************************************)
MaxSepLines == 2

AnySeps == {BSL, SL}

SepItems ==
    { [Category |-> c, Item_Path |-> ip] :
        c \in {"File"},
        ip \in { <<"X">>, <<"X", BSL>>, <<"X", SL>>,
                 <<"X", BSL>> \o fF, <<"X", SL>> \o fF,
                 <<"X", BSL>> \o Join(<<sA, fF>>, BSL),
                 <<"X", SL>> \o Join(<<sA, fF>>, SL),
                 <<"X", BSL>> \o Join(<<sA, fF>>, SL) } }

InitSep == InitWith(AnySeps, {<<3, 4, 5>>, <<3, 4, 3>>}, {1}, BOOLEAN, {"asc"})

NextSep ==
    \/ \E item \in SepItems : file_line_cnt <= MaxSepLines /\ ReadLine(item)
    \/ EndOfInput
    \/ SweepStep
    \/ UpdateNodeChildCnts
    \/ WriteUnableToShorten
    \/ AnalyzeTrimmable
    \/ SearchTrimmable
    \/ BatchSearch

SpecSep == InitSep /\ [][NextSep]_vars

(***************************************************************************)
(* The pipeline over files of two directories whose paths are over         *)
(* max_path_length, so that one directory gets several Outlier3 candidates *)
(* with different shortening results.                                      *)
(***************************************************************************)
MaxOutlier3Lines == 3

Outlier3Thresholds == {<<4, 6, 6>>, <<4, 6, 4>>}

Outlier3Items ==
    { File(<<sA, sA, sA, fF>>), File(<<sA, sA, sA, fG>>),
      File(<<sA, sA, fF>>), File(<<sA, sA, fG>>) }

InitOutlier3 == InitWith(PathSeps, Outlier3Thresholds, {1}, BOOLEAN, {"asc"})

NextOutlier3 ==
    \/ \E item \in Outlier3Items : file_line_cnt <= MaxOutlier3Lines /\ ReadLine(item)
    \/ EndOfInput
    \/ SweepStep
    \/ UpdateNodeChildCnts
    \/ WriteUnableToShorten
    \/ AnalyzeTrimmable
    \/ SearchTrimmable
    \/ BatchSearch

SpecOutlier3 == InitOutlier3 /\ [][NextOutlier3]_vars

(***************************************************************************)
(* prepare_batch_results with its file handles, lines 753-911.  open,      *)
(* writerow, flush and close can each raise (a missing directory, a full   *)
(* disk, no permission); the steps below say which call raised, if any.    *)
(***************************************************************************)
MaxReportLines == 2

AllOpen == \A i \in 1..Len(REPORT_FILES) : handles[i] = "open"

\* lines 754-758: the five open() calls, which stand before the try
\* statement.  The first n succeed; when n < 5 the next one raises and the
\* exception leaves prepare_batch_results at once.
OpenReportFiles(n) ==
    /\ pc = "warnings"
    /\ handles = Unopened
    /\ handles' = [i \in 1..Len(REPORT_FILES) |-> IF i <= n THEN "open" ELSE "unopened"]
    /\ pc' = IF n = Len(REPORT_FILES) THEN pc ELSE "raised"
    /\ UNCHANGED <<nodes_path, warnings_rows, trimmed_rows, batch_rows, walk>>
    /\ UNCHANGED <<config, file_line_cnt, Node_COUNT, Outlier1_COUNT, Outlier2_COUNT,
                   Outlier3_COUNT, dir_tree, nodes_id, nodes_depth,
                   outliers1, outliers2, outliers3, sweep_todo, last, ingested, call,
                   listing, first_run>>

\* lines 766-898: a writerow of the try block raises
WriteRaises ==
    /\ pc \in {"warnings", "analyze_trimmable", "search_trimmable", "batch"}
    /\ AllOpen
    /\ pc' = "IOError"
    /\ UNCHANGED <<nodes_path, warnings_rows, trimmed_rows, batch_rows, walk, handles>>
    /\ ReportFrame

\* lines 899-911: the try block is over, normally or by an exception, and
\* the finally block flushes and closes the files one after the other.  The
\* calls for the first k - 1 files succeed; for k <= 5 the flush (in_flush)
\* or the close of file k raises, which ends the block: a file whose flush
\* raised stays open, a file whose close raised is closed.
Finally(k, in_flush) ==
    /\ pc \in {"done", "KeyError", "IOError"}
    /\ AllOpen
    /\ handles' = [i \in 1..Len(REPORT_FILES) |->
                     IF i < k \/ (i = k /\ ~in_flush) THEN "closed" ELSE "open"]
    /\ pc' = IF pc = "done" /\ k > Len(REPORT_FILES) THEN "returned" ELSE "raised"
    /\ UNCHANGED <<nodes_path, warnings_rows, trimmed_rows, batch_rows, walk>>
    /\ UNCHANGED <<config, file_line_cnt, Node_COUNT, Outlier1_COUNT, Outlier2_COUNT,
                   Outlier3_COUNT, dir_tree, nodes_id, nodes_depth,
                   outliers1, outliers2, outliers3, sweep_todo, last, ingested, call,
                   listing, first_run>>

InitReport == InitWith(PathSeps, SelectThresholds, {1}, BOOLEAN, {"asc"})

NextReport ==
    \/ \E item \in SelectItems : file_line_cnt <= MaxReportLines /\ ReadLine(item)
    \/ EndOfInput
    \/ SweepStep
    \/ UpdateNodeChildCnts
    \/ \E n \in 0..Len(REPORT_FILES) : OpenReportFiles(n)
    \/ AllOpen /\ WriteUnableToShorten
    \/ AnalyzeTrimmable
    \/ SearchTrimmable
    \/ BatchSearch
    \/ WriteRaises
    \/ \E k \in 1..(Len(REPORT_FILES) + 1), in_flush \in BOOLEAN : Finally(k, in_flush)

SpecReport == InitReport /\ [][NextReport]_vars

(***************************************************************************)
(* Two runs over the same input file in one process: process(), then a new *)
(* Analyzer with the same options and process() again.  Analyzer.__init__, *)
(* lines 362-394, starts from empty registries; Node._COUNT and the        *)
(* Outlier _COUNTs are class attributes, lines 113 and 211, and go on from *)
(* where the first run left them.                                          *)
(***************************************************************************)
MaxTwiceLines == 4

\* the size of the hash table of a dict of the interpreter the program is
\* written for (CPython 2): eight slots up to five entries
DICT_MINSIZE == 8

\* the keys of a dict with integer keys in the order values() lists them: an
\* integer hashes to itself and takes the slot hash modulo the table size,
\* and values() goes through the slots in order.  The keys here are up to
\* five consecutive ids, so no two of them meet in a slot.
RECURSIVE DictOrder(_)
DictOrder(keys) ==
    IF keys = {} THEN <<>>
    ELSE LET k == CHOOSE x \in keys :
                      \A y \in keys : x % DICT_MINSIZE <= y % DICT_MINSIZE
         IN  <<k>> \o DictOrder(keys \ {k})

\* lines 885-889: the rows of the outliers1 file
outliers1_rows ==
    LET order == DictOrder(DOMAIN outliers1)
    IN  [i \in 1..Len(order) |->
           LET v == outliers1[order[i]]
               path == nodes_id[v.node_id]
           IN  <<nodes_path[path].depth, Len(v.filename), v.filename, path>>]

\* lines 894-898: the rows of the outliers2 file
outliers2_rows ==
    LET order == DictOrder(DOMAIN outliers2)
    IN  [i \in 1..Len(order) |->
           LET v == outliers2[order[i]]
               path == nodes_id[v.node_id]
           IN  <<nodes_path[path].depth, Len(v.parent_file), v.parent_file, path>>]

\* the rows of the five report files, once prepare_batch_results is through
Reports ==
    [batch |-> batch_rows, outliers1 |-> outliers1_rows, outliers2 |-> outliers2_rows,
     outliers3 |-> trimmed_rows, warnings |-> warnings_rows]

\* the first run is over; a new Analyzer is constructed for the second
NewRun ==
    /\ pc = "done"
    /\ first_run = NoRun
    /\ first_run' = [run |-> "done", reports |-> Reports]
    /\ pc' = "ingest"
    /\ file_line_cnt' = 1
    /\ dir_tree' = {}
    /\ nodes_path' = EmptyDict
    /\ nodes_id' = EmptyDict
    /\ nodes_depth' = EmptyDict
    /\ outliers1' = EmptyDict
    /\ outliers2' = EmptyDict
    /\ outliers3' = EmptyDict
    /\ sweep_todo' = <<>>
    /\ warnings_rows' = <<>>
    /\ trimmed_rows' = <<>>
    /\ batch_rows' = <<>>
    /\ walk' = <<>>
    /\ last' = NoLast
    /\ ingested' = EmptyDict
    /\ UNCHANGED <<config, Node_COUNT, Outlier1_COUNT, Outlier2_COUNT, Outlier3_COUNT,
                   call, listing, handles>>

TwiceItems == { File(<<sA, fG>>), File(<<sBB, fG>>), File(<<sA, fF>>) }

InitTwice == InitWith(PathSeps, {<<3, 4, 5>>}, {1}, BOOLEAN, {"asc"})

NextTwice ==
    \/ \E item \in TwiceItems :
          first_run = NoRun /\ file_line_cnt <= MaxTwiceLines /\ ReadLine(item)
    \/ first_run # NoRun /\ file_line_cnt <= Len(listing)
          /\ ReadLine(listing[file_line_cnt].item)
    \/ (first_run = NoRun \/ file_line_cnt = Len(listing) + 1) /\ EndOfInput
    \/ SweepStep
    \/ UpdateNodeChildCnts
    \/ WriteUnableToShorten
    \/ AnalyzeTrimmable
    \/ SearchTrimmable
    \/ BatchSearch
    \/ NewRun

SpecTwice == InitTwice /\ [][NextTwice]_vars

(***************************************************************************)
(* Properties.                                                             *)
(***************************************************************************)
Nodes == { nodes_path[p] : p \in DOMAIN nodes_path }

\* the directories of the Directory Tree, as paths
TreeDirs == { Join(q, path_sep) : q \in dir_tree }

\* the child-count pass has run
AfterChildCounts ==
    pc \in {"warnings", "analyze_trimmable", "search_trimmable", "batch", "done"}

FileName(path) == Last(Split(path, path_sep))

\* the last directory segment, the separator and the filename; the filename
\* alone for a file that has no directory segment
ParentFile(path) ==
    LET l == Split(path, path_sep)
    IN  IF Len(l) = 1 THEN l[1] ELSE l[Len(l) - 1] \o <<path_sep>> \o l[Len(l)]

Test1(path) == Len(FileName(path)) > max_file_length
Test2(path) == Len(ParentFile(path)) > max_parent_file_length
Test3(path) == Len(path) > max_path_length

FirstTest(path) ==
    IF Test1(path) THEN "outlier1"
    ELSE IF Test2(path) THEN "outlier2"
    ELSE IF Test3(path) THEN "outlier3"
    ELSE "counted"

\* how many of the file paths in history have the outcome
CountOutcome(history, outcome) ==
    Cardinality({ i \in 1..Len(history) : FirstTest(history[i]) = outcome })

\* the last line read was a file entry with a path
LastIsFile == last.line > 0 /\ last.outcome \notin {"skip", "folder"}

\* C1: in every reachable state, after each file entry read and after each
\* single propagation step of the sweep, every Node of the registry has
\* total_cnt = local_cnt + subdir_cnt.
C1_TotalIsLocalPlusSubdir ==
    \A n \in Nodes : n.total_cnt = n.local_cnt + n.subdir_cnt

\* the sweep has propagated a count into a Node that holds files of its own
C1_Witness ==
    /\ pc = "sweep"
    /\ \E n \in Nodes : n.local_cnt > 0 /\ n.subdir_cnt > 0

\* C2 as stated: after the sweep and the child-count pass, every Node of the
\* registry, however it was created, has the three plus-child counts and
\* total_plus_child_cnt = local_plus_child_cnt + subdir_plus_child_cnt.
C2_EveryNodePlusChild ==
    AfterChildCounts =>
        \A n \in Nodes :
            /\ n.local_plus_child_cnt # None
            /\ n.subdir_plus_child_cnt # None
            /\ n.total_plus_child_cnt # None
            /\ n.total_plus_child_cnt = n.local_plus_child_cnt + n.subdir_plus_child_cnt

\* C2 amended: after the sweep and the child-count pass, every Node whose
\* directory is in the Directory Tree has
\* total_plus_child_cnt = local_plus_child_cnt + subdir_plus_child_cnt, and
\* every other Node (one made from a Folder entry only, or the Node of the
\* files that have no directory) still has None in all three.
C2_TreeNodesPlusChild ==
    AfterChildCounts =>
        \A p \in DOMAIN nodes_path :
            LET n == nodes_path[p]
            IN  IF p \in TreeDirs
                THEN /\ n.local_plus_child_cnt # None
                     /\ n.subdir_plus_child_cnt # None
                     /\ n.total_plus_child_cnt # None
                     /\ n.total_plus_child_cnt =
                            n.local_plus_child_cnt + n.subdir_plus_child_cnt
                ELSE /\ n.local_plus_child_cnt = None
                     /\ n.subdir_plus_child_cnt = None
                     /\ n.total_plus_child_cnt = None

\* the pass has run over a directory that has a subdirectory, and the
\* registry also holds a Node outside the Directory Tree
C2_Witness ==
    /\ AfterChildCounts
    /\ \E p \in DOMAIN nodes_path :
          /\ p \in TreeDirs
          /\ nodes_path[p].child_node_cnt > 0
          /\ nodes_path[p].total_plus_child_cnt > nodes_path[p].local_plus_child_cnt
    /\ \E p \in DOMAIN nodes_path : p \notin TreeDirs

\* C3: reading a file entry whose filename is longer than max_file_length,
\* whatever its parent+filename and full path lengths, classifies it
\* Outlier1: one Outlier1 record is made, the Outlier2 and Outlier3 records
\* stay as they were, and shorten_path is not called.
C3_LongFilenameIsOutlier1 ==
    [][ ( /\ pc = "ingest"
          /\ file_line_cnt' = file_line_cnt + 1
          /\ last'.item.Category # "Folder"
          /\ last'.path # <<>>
          /\ Len(FileName(last'.path)) > max_file_length )
        => /\ last'.outcome = "outlier1"
           /\ Outlier1_COUNT' = Outlier1_COUNT + 1
           /\ DOMAIN outliers1' = DOMAIN outliers1 \cup {Outlier1_COUNT'}
           /\ Outlier1_COUNT' \notin DOMAIN outliers1
           /\ \A i \in DOMAIN outliers1 : outliers1'[i] = outliers1[i]
           /\ outliers1'[Outlier1_COUNT'].filename = FileName(last'.path)
           /\ outliers1'[Outlier1_COUNT'].node_id =
                  nodes_path'[DirPathOf(last'.path, path_sep)].id
           /\ outliers2' = outliers2 /\ Outlier2_COUNT' = Outlier2_COUNT
           /\ outliers3' = outliers3 /\ Outlier3_COUNT' = Outlier3_COUNT
           /\ last'.shorten_calls = 0 ]_vars

\* a file entry over all three thresholds at once was read
C3_Witness ==
    /\ LastIsFile
    /\ Test1(last.path) /\ Test2(last.path) /\ Test3(last.path)
    /\ last.outcome = "outlier1"

\* C4: each file entry gets the outcome of the first test that holds, in the
\* order filename, parent+filename, full path, else counted; so for every
\* directory local_cnt, num_local_outliers1, num_local_outliers2 and
\* num_local_outliers3 are the numbers of its file entries read with each
\* outcome, and they add up to the number of file entries read for it.
C4_OneOutcomePerFile ==
    /\ LastIsFile => last.outcome = FirstTest(last.path)
    /\ DOMAIN ingested \subseteq DOMAIN nodes_path
    /\ \A p \in DOMAIN nodes_path :
          LET n == nodes_path[p]
              history == Ingested(p)
          IN  /\ n.local_cnt = CountOutcome(history, "counted")
              /\ n.num_local_outliers1 = CountOutcome(history, "outlier1")
              /\ n.num_local_outliers2 = CountOutcome(history, "outlier2")
              /\ n.num_local_outliers3 = CountOutcome(history, "outlier3")
              /\ n.local_cnt + n.num_local_outliers1 + n.num_local_outliers2
                     + n.num_local_outliers3 = Len(history)

\* a directory has taken a counted file and outliers, the last one an
\* Outlier2 that is over the full path length too
C4_Witness ==
    /\ LastIsFile
    /\ last.outcome = "outlier2" /\ Test3(last.path)
    /\ \E n \in Nodes : n.local_cnt > 0 /\ n.num_local_outliers2 > 0

\* the sweep is over
SweepDone == (pc = "sweep" /\ sweep_todo = <<>>) \/ AfterChildCounts

\* directory d lies below directory p
IsBelow(d, p) ==
    LET ds == Split(d, path_sep)
        ps == Split(p, path_sep)
    IN  Len(ds) > Len(ps) /\ SubSeq(ds, 1, Len(ps)) = ps

\* the registered directories of the subtree of p, p included
Subtree(p) == { d \in DOMAIN nodes_path : d = p \/ IsBelow(d, p) }

\* what a directory holds by itself
OwnLocalCnt(d) == nodes_path[d].local_cnt
OwnUnable(d) == IF nodes_path[d].unable_to_shorten THEN 1 ELSE 0

RECURSIVE SumLocalCnt(_)
SumLocalCnt(S) ==
    IF S = {} THEN 0
    ELSE LET x == CHOOSE y \in S : TRUE
         IN  OwnLocalCnt(x) + SumLocalCnt(S \ {x})

RECURSIVE SumUnable(_)
SumUnable(S) ==
    IF S = {} THEN 0
    ELSE LET x == CHOOSE y \in S : TRUE
         IN  OwnUnable(x) + SumUnable(S \ {x})

MaxOf(S) == IF S = {} THEN 0 ELSE CHOOSE x \in S : \A y \in S : y <= x

\* the longest filename and path among the file entries read for a directory
OwnLongestFn(d) == MaxOf({ Len(FileName(Ingested(d)[i])) : i \in 1..Len(Ingested(d)) })
OwnLongestFp(d) == MaxOf({ Len(Ingested(d)[i]) : i \in 1..Len(Ingested(d)) })

\* C5: batch_search, with search_local false or true, yields no directory
\* whose total_plus_child_cnt is over the file limit, and once it has yielded
\* a directory it neither visits nor yields a directory below it.
C5_YieldsWithinLimitAndStops ==
    call.fn = "batch_search" =>
        \A i \in 1..Len(call.yields) :
            /\ nodes_path[call.yields[i]].total_plus_child_cnt <= file_limit
            /\ \A j \in 1..Len(call.visited) : ~IsBelow(call.visited[j], call.yields[i])
            /\ \A j \in 1..Len(call.yields) : ~IsBelow(call.yields[j], call.yields[i])

\* C6: after depth_first_reverse_update every Node holds what a recursive
\* propagation to the root gives: total_cnt is the sum of local_cnt over its
\* subtree, subdir_cnt the sum over the directories below it, each
\* has_outliers flag the OR over the subtree, longest_fn_length and
\* longest_fp_length the maximum over the subtree, num_unable_to_shorten the
\* sum over the subtree.
C6_SweepIsRecursivePropagation ==
    SweepDone =>
        \A p \in DOMAIN nodes_path :
            LET n == nodes_path[p]
                sub == Subtree(p)
            IN  /\ n.total_cnt = SumLocalCnt(sub)
                /\ n.subdir_cnt = SumLocalCnt(sub \ {p})
                /\ n.has_outliers1 = (\E d \in sub : nodes_path[d].num_local_outliers1 > 0)
                /\ n.has_outliers2 = (\E d \in sub : nodes_path[d].num_local_outliers2 > 0)
                /\ n.has_outliers3 = (\E d \in sub : nodes_path[d].num_local_outliers3 > 0)
                /\ n.longest_fn_length = MaxOf({ OwnLongestFn(d) : d \in sub })
                /\ n.longest_fp_length = MaxOf({ OwnLongestFp(d) : d \in sub })
                /\ n.num_unable_to_shorten = SumUnable(sub)

\* the sweep has carried a count up two levels, and an outlier flag from
\* another directory into the same ancestor
C6_Witness ==
    /\ SweepDone
    /\ \E p \in DOMAIN nodes_path, d \in DOMAIN nodes_path :
          /\ IsBelow(d, p)
          /\ Len(Split(d, path_sep)) >= Len(Split(p, path_sep)) + 2
          /\ nodes_path[d].local_cnt > 0
          /\ nodes_path[p].subdir_cnt > 0
          /\ \E e \in Subtree(p) \ {p, d} :
                nodes_path[e].num_local_outliers3 > 0 /\ nodes_path[p].num_local_outliers3 = 0

HasSep(s) == \E i \in 1..Len(s) : s[i] = path_sep

\* the text after the first path separator
AfterFirstSep(s) ==
    LET i == CHOOSE j \in 1..Len(s) : s[j] = path_sep /\ \A k \in 1..(j - 1) : s[k] # path_sep
    IN  SubSeq(s, i + 1, Len(s))

\* C7: for an Item_Path that contains a path separator the cleaned path is
\* the text after the first separator, leading separators stripped, and a
\* file entry is filed under the directory of that path.
C7_PathStartsAfterFirstSeparator ==
    (last.line > 0 /\ HasSep(last.item.Item_Path)) =>
        LET path == LStrip(AfterFirstSep(last.item.Item_Path), path_sep)
        IN  /\ last.path = path
            /\ (last.item.Category # "Folder" /\ path # <<>>) =>
                   /\ DirPathOf(path, path_sep) \in DOMAIN ingested
                   /\ Last(ingested[DirPathOf(path, path_sep)]) = path

\* C8: at the end of the report phase, in both search modes, every directory
\* of the Directory Tree whose local_plus_child_cnt is over the file limit
\* has a "Directory local file count over limit" row in the warnings file,
\* and one without children has no row in the batch file.
C8_OverLimitIsWarned ==
    pc = "done" =>
        \A p \in TreeDirs :
            nodes_path[p].local_plus_child_cnt > file_limit =>
                /\ \E i \in 1..Len(warnings_rows) :
                      warnings_rows[i] = warning_row(OVER_LIMIT, p)
                /\ count_child_nodes(dir_tree, Split(p, path_sep)) = 0 =>
                      \A i \in 1..Len(batch_rows) : batch_rows[i].Directory_Path # p

\* C9: in both search modes, no directory the trim selector yielded, and no
\* directory below one, has a row in the batch file.
C9_TrimmedNotBatched ==
    pc = "done" =>
        \A t \in 1..Len(trimmed_rows), b \in 1..Len(batch_rows) :
            /\ batch_rows[b].Directory_Path # trimmed_rows[t]
            /\ ~IsBelow(batch_rows[b].Directory_Path, trimmed_rows[t])

\* the directory a path names, without its last segment and separator
ParentDirectory(path) == SubSeq(path, 1, Len(path) - Len(FileName(path)) - 1)

\* C10: shorten_path with get_parent_path true returns the parent directory
\* of a path of two or more segments that is within the length, no leading
\* segment dropped, and UNABLE_TO_SHORTEN for a path of one segment,
\* whatever the length.
C10_ShortEnoughGivesParent ==
    (call.fn = "shorten_path" /\ call.get_parent_path) =>
        LET segments == Split(call.path, path_sep)
        IN  /\ (Len(segments) >= 2 /\ Len(call.path) <= call.length) =>
                   call.result = ParentDirectory(call.path)
            /\ Len(segments) = 1 => call.result = UNABLE_TO_SHORTEN

\* a call on a path of three segments just within the length
C10_Witness ==
    /\ call.fn = "shorten_path" /\ call.get_parent_path
    /\ Len(Split(call.path, path_sep)) = 3
    /\ Len(call.path) = call.length
    /\ call.result = ParentDirectory(call.path)
    /\ call.result # <<>>

\* the Item_Path has no path separator, or nothing after its first one
NothingAfterSep(s) == ~HasSep(s) \/ AfterFirstSep(s) = <<>>

\* the Directory Tree, the Node Registry, the outlier records and the id
\* counters
registries ==
    <<dir_tree, nodes_path, nodes_id, nodes_depth, outliers1, outliers2, outliers3,
      Node_COUNT, Outlier1_COUNT, Outlier2_COUNT, Outlier3_COUNT>>

\* C12: reading a line whose Item_Path contains no path separator, or
\* nothing after it, is a skip: the Directory Tree, the Node Registry, the
\* outlier records and the id counters are left as they were, and the
\* ingestion loop goes on to the next line.
C12_SkippedLineChangesNothing ==
    [][(pc = "ingest" /\ file_line_cnt' = file_line_cnt + 1
          /\ NothingAfterSep(last'.item.Item_Path)) =>
            /\ last'.outcome = "skip"
            /\ UNCHANGED registries
            /\ pc' = "ingest"]_vars

\* the attributes of a Node as Node(data={'depth': ..., 'local_path_length': ...})
\* leaves them
SeededAttributes(path) ==
    [init_attributes EXCEPT !.depth = Len(Split(path, path_sep)),
                            !.local_path_length = Len(path)]

\* C14: reading a Folder entry leaves every Node registered before it as it
\* was, creates no Outlier record, counts and classifies nothing and leaves
\* the Directory Tree alone; afterwards the directory is registered, and
\* every Node the line created is the directory or one of its ancestors,
\* with depth = number of path segments, local_path_length = length of the
\* path and every other attribute at its initial value.
C14_FolderOnlyRegisters ==
    [][(pc = "ingest" /\ file_line_cnt' = file_line_cnt + 1
          /\ last'.outcome = "folder") =>
            /\ \A p \in DOMAIN nodes_path :
                  p \in DOMAIN nodes_path' /\ nodes_path'[p] = nodes_path[p]
            /\ UNCHANGED <<outliers1, outliers2, outliers3, Outlier1_COUNT,
                           Outlier2_COUNT, Outlier3_COUNT, dir_tree, ingested>>
            /\ last'.path \in DOMAIN nodes_path'
            /\ \A q \in DOMAIN nodes_path' \ DOMAIN nodes_path :
                  /\ q = last'.path \/ IsBelow(last'.path, q)
                  /\ [f \in DOMAIN init_attributes |-> nodes_path'[q][f]]
                        = SeededAttributes(q)]_vars

\* a Folder entry read after a file entry has registered a new Node, while
\* the Node of the file entry keeps its count
C14_Witness ==
    /\ last.outcome = "folder"
    /\ last.path \in DOMAIN nodes_path
    /\ \E p \in DOMAIN nodes_path :
          /\ nodes_path[p].local_cnt > 0
          /\ nodes_path[p].id < nodes_path[last.path].id

\* C15: the ids of the registered Nodes are the values 1..Node._COUNT of
\* the one counter, each taken by exactly one Node (so a new Node has the id
\* of the Node created before it plus one), and the id-keyed and the
\* path-keyed registry hold the same Nodes: every id leads to a registered
\* path whose Node has that id, and every registered Node is found under its
\* id.
C15_NodeIdsSequential ==
    /\ { nodes_path[p].id : p \in DOMAIN nodes_path } = 1..Node_COUNT
    /\ \A p, q \in DOMAIN nodes_path : nodes_path[p].id = nodes_path[q].id => p = q
    /\ DOMAIN nodes_id = 1..Node_COUNT
    /\ \A i \in DOMAIN nodes_id :
          nodes_id[i] \in DOMAIN nodes_path /\ nodes_path[nodes_id[i]].id = i
    /\ \A p \in DOMAIN nodes_path : nodes_id[nodes_path[p].id] = p

\* two lines have created five Nodes, through a Folder entry and through a
\* file entry with its ancestors
C15_Witness ==
    /\ Node_COUNT >= 5
    /\ last.line = 2
    /\ \E p \in DOMAIN nodes_path : nodes_path[p].id = 5 /\ nodes_path[p].depth = 1

\* the path of the parent directory, as update_parent_attributes computes it
ParentPath(p) == Join(AllButLast(Split(p, path_sep)), path_sep)

\* the registered children of the directory p
Children(p) ==
    { c \in DOMAIN nodes_path : Len(Split(c, path_sep)) >= 2 /\ ParentPath(c) = p }

\* the ids of a list, as a set
IdsOf(todo) == { todo[i] : i \in 1..Len(todo) }

\* C18: the sweep visits every registered Node exactly once (its list, when
\* the listing is exhausted, holds every Node id once, and each step takes
\* the head of the list away), and when update_parent_attributes runs for a
\* Node, it has already run for every registered child of that Node: no
\* child is still in the list.
C18_ChildrenBeforeParents ==
    [][/\ (pc = "ingest" /\ pc' = "sweep") =>
             /\ IdsOf(sweep_todo') = DOMAIN nodes_id
             /\ Len(sweep_todo') = Cardinality(DOMAIN nodes_id)
       /\ (pc = "sweep" /\ sweep_todo' # sweep_todo) =>
             /\ sweep_todo' = Tail(sweep_todo)
             /\ \A c \in Children(nodes_id[Head(sweep_todo)]) :
                   nodes_path[c].id \notin IdsOf(sweep_todo)]_vars

\* the sweep is about to run for a directory with two registered children,
\* both already propagated
C18_Witness ==
    /\ pc = "sweep"
    /\ sweep_todo # <<>>
    /\ Cardinality(Children(nodes_id[Head(sweep_todo)])) >= 2
    /\ \A c \in Children(nodes_id[Head(sweep_todo)]) :
          nodes_path[c].id \notin IdsOf(sweep_todo)

\* every registered path of two or more segments has its parent registered
AncestorClosed ==
    \A p \in DOMAIN nodes_path :
        Len(Split(p, path_sep)) >= 2 => ParentPath(p) \in DOMAIN nodes_path

\* the directory path the line just read asked to insert: the path of a
\* Folder entry, the directory of a file entry
InsertedPath(l) ==
    IF l.outcome = "folder" THEN l.path ELSE DirPathOf(l.path, path_sep)

\* C19: after every entry the registry is ancestor-closed, and an entry
\* whose directory path is already registered creates no Node and consumes no
\* id (the counter, the id-keyed and the depth-keyed registry and the set of
\* registered paths stay as they were) and changes no attribute of any other
\* Node; a Folder entry for a registered path changes no Node at all.
C19_InsertionIdempotentAncestorClosed ==
    [][/\ AncestorClosed'
       /\ (pc = "ingest" /\ file_line_cnt' = file_line_cnt + 1
             /\ last'.outcome # "skip"
             /\ InsertedPath(last') \in DOMAIN nodes_path) =>
               /\ UNCHANGED <<Node_COUNT, nodes_id, nodes_depth>>
               /\ DOMAIN nodes_path' = DOMAIN nodes_path
               /\ \A q \in DOMAIN nodes_path \ {InsertedPath(last')} :
                     nodes_path'[q] = nodes_path[q]
               /\ last'.outcome = "folder" => nodes_path' = nodes_path]_vars

\* a Folder entry has named a directory of two segments that the file entry
\* before it had registered, ancestor included
C19_Witness ==
    /\ last.line = 2
    /\ last.outcome = "folder"
    /\ last.path \in DOMAIN ingested
    /\ Len(Split(last.path, path_sep)) = 2
    /\ Node_COUNT = 2
    /\ ParentPath(last.path) \in DOMAIN nodes_path

\* the segment-aligned suffix of a path that starts at its k-th segment
Suffix(path, k) ==
    LET l == Split(path, path_sep) IN Join(SubSeq(l, k, Len(l)), path_sep)

\* where the suffixes of two or more segments that fit within the length start
FittingSuffixes(path, length) ==
    { k \in 1..(Len(Split(path, path_sep)) - 1) : Len(Suffix(path, k)) <= length }

SurvivingSuffixes(path, length) ==
    { k \in 1..Len(Split(path, path_sep)) : Len(Suffix(path, k)) <= length }

\* C17: shorten_path with get_parent_path false returns the surviving suffix
\* itself, last segment included: the path when it is within the length, the
\* longest suffix within the length when leading segments had to be dropped.
C17_SuffixKeptWhenParentNotAsked ==
    (call.fn = "shorten_path" /\ ~call.get_parent_path) =>
        LET K == SurvivingSuffixes(call.path, call.length)
        IN  K # {} =>
              call.result = Suffix(call.path, CHOOSE x \in K : \A y \in K : x <= y)

\* the shortening results computed for the files of a directory that were
\* classified Outlier3, history being the file paths read for the directory
ShorteningResults(history) ==
    { shorten_path(history[i], max_path_length, TRUE, path_sep) :
        i \in { j \in 1..Len(history) : FirstTest(history[j]) = "outlier3" } }

\* the file paths read for a directory, in the history read
HistoryOf(read, d) == IF d \in DOMAIN read THEN read[d] ELSE <<>>

\* every record of the Outlier3 table is filed under the id of its Node, a
\* registered directory has a record exactly when one of its files was
\* classified Outlier3, and the shortened string of its record is the least
\* of the shortening results computed for the directory
Outlier3TableIsMinimum(table, nodes, read) ==
    /\ \A k \in DOMAIN table :
          table[k].node_id = k /\ \E d \in DOMAIN nodes : nodes[d].id = k
    /\ \A d \in DOMAIN nodes :
          LET k == nodes[d].id
              results == ShorteningResults(HistoryOf(read, d))
          IN  /\ k \in DOMAIN table <=> results # {}
              /\ k \in DOMAIN table =>
                    /\ table[k].shortened \in results
                    /\ \A r \in results : ~StrLess(r, table[k].shortened)

HasLeftReport == pc \in {"returned", "raised"}

\* C13: when prepare_batch_results is left, by its return or by an
\* exception raised while opening a file, while writing a row or while
\* flushing or closing a handle, no report file that was opened is still
\* open.
C13_HandlesClosedOnExit ==
    HasLeftReport => \A i \in 1..Len(REPORT_FILES) : handles[i] # "open"

\* C11: in the second run over the same input, in the same process, every
\* line is classified as the first run classified it, and at the end each of
\* the five report files has the rows of the first run, in the same order.
C11_SecondRunSameReports ==
    first_run # NoRun =>
        /\ last.line > 0 => last.outcome = listing[last.line].outcome
        /\ pc = "done" => Reports = first_run.reports

\* the directory D and its k - 1 nearest ancestors
NearestAncestors(D, k) ==
    LET l == Split(D, path_sep)
    IN  { Join(SubSeq(l, 1, n), path_sep) : n \in (Len(l) - k + 1)..Len(l) }

\* the attributes of a Node before the line was read: those it had, or those
\* it was created with by the line
AttributesBefore(nodes, p) ==
    IF p \in DOMAIN nodes
    THEN [f \in DOMAIN init_attributes |-> nodes[p][f]]
    ELSE SeededAttributes(p)

\* C21: when a file under directory D has been shortened to a directory
\* path of k segments, can_shorten is true on D and on its k - 1 nearest
\* ancestors, these ancestors have no other attribute changed, and every
\* other Node has all its attributes, can_shorten included, as before.
C21_CanShortenOnShortenedSegments ==
    [][(pc = "ingest" /\ file_line_cnt' = file_line_cnt + 1
          /\ last'.outcome = "outlier3" /\ last'.shortened # UNABLE_TO_SHORTEN) =>
            LET D == DirPathOf(last'.path, path_sep)
                M == NearestAncestors(D, Len(Split(last'.shortened, path_sep)))
            IN  /\ Cardinality(M) = Len(Split(last'.shortened, path_sep))
                /\ M \subseteq DOMAIN nodes_path'
                /\ \A p \in DOMAIN nodes_path' :
                      LET now == [f \in DOMAIN init_attributes |-> nodes_path'[p][f]]
                          before == AttributesBefore(nodes_path, p)
                      IN  /\ p \in M => now.can_shorten
                          /\ p \in M \ {D} => now = [before EXCEPT !.can_shorten = TRUE]
                          /\ p \notin M => now = before]_vars

\* a file of a\a\a has been shortened to a directory path of two segments:
\* a\a\a and a\a can be shortened, a cannot
C21_Witness ==
    /\ last.outcome = "outlier3"
    /\ Len(Split(last.shortened, path_sep)) = 2
    /\ Len(Split(last.path, path_sep)) = 4
    /\ \E p \in DOMAIN nodes_path :
          /\ Len(Split(p, path_sep)) = 1
          /\ ~nodes_path[p].can_shorten
          /\ nodes_path[DirPathOf(last.path, path_sep)].can_shorten
          /\ nodes_path[ParentPath(DirPathOf(last.path, path_sep))].can_shorten

\* how many rows of the warnings file carry the message for the path
WarningCount(message, path) ==
    Cardinality({ i \in 1..Len(warnings_rows) : warnings_rows[i] = warning_row(message, path) })

\* C22: within one report phase no directory has more than one 'Directory
\* local file count over limit' row in the warnings file, whether the row
\* comes from analyze_trimmable or from the batch-selection walk.
C22_OverLimitWarnedOnce ==
    \A p \in DOMAIN nodes_path : WarningCount(OVER_LIMIT, p) <= 1

\* the tree directories marked trimmable that have no trimmable proper
\* ancestor
HighestTrimmable ==
    { p \in TreeDirs :
        /\ nodes_path[p].trimmable
        /\ \A q \in TreeDirs : IsBelow(p, q) => ~nodes_path[q].trimmable }

\* C23: once the trim selector has run, the directories it yielded are
\* exactly the tree directories marked trimmable that have no trimmable
\* proper ancestor, each yielded once; none is a descendant of another, and
\* each has trimmed = true when batch selection begins.
C23_TrimSelectorYieldsHighest ==
    pc \in {"batch", "done"} =>
        /\ IdsOf(trimmed_rows) = HighestTrimmable
        /\ Len(trimmed_rows) = Cardinality(HighestTrimmable)
        /\ \A i, j \in 1..Len(trimmed_rows) : ~IsBelow(trimmed_rows[i], trimmed_rows[j])
        /\ \A i \in 1..Len(trimmed_rows) : nodes_path[trimmed_rows[i]].trimmed

\* the selector has yielded a directory and passed over a trimmable
\* directory below it; another trimmable directory was yielded as well
C23_Witness ==
    /\ pc = "batch"
    /\ Len(trimmed_rows) >= 2
    /\ \E p \in TreeDirs :
          /\ nodes_path[p].trimmable
          /\ p \notin IdsOf(trimmed_rows)
          /\ \E i \in 1..Len(trimmed_rows) : IsBelow(p, trimmed_rows[i])

\* C24: no Node is trimmable before analyze_trimmable, and after it every
\* trimmable Node has can_shorten true, a local_plus_child_cnt within the
\* file limit, and is non-empty or shortened, for both orders in which the
\* leaf chains of the Directory Tree are walked.
C24_TrimmableImpliesShortenable ==
    \A p \in DOMAIN nodes_path :
        nodes_path[p].trimmable =>
            /\ pc \in {"search_trimmable", "batch", "done"}
            /\ nodes_path[p].can_shorten
            /\ nodes_path[p].local_plus_child_cnt <= file_limit
            /\ nodes_path[p].local_plus_child_cnt # 0 \/ nodes_path[p].shortened

C24_Witness ==
    /\ pc = "search_trimmable"
    /\ \E p \in TreeDirs : nodes_path[p].trimmable
    /\ \E p \in TreeDirs :
          /\ ~nodes_path[p].can_shorten /\ ~nodes_path[p].trimmable
          /\ nodes_path[p].local_plus_child_cnt \in 1..file_limit
    /\ \E p \in TreeDirs :
          /\ nodes_path[p].can_shorten /\ ~nodes_path[p].trimmable
          /\ nodes_path[p].local_plus_child_cnt > file_limit

\* C25: once the unable-to-shorten rows are written, every Node flagged
\* unable_to_shorten has a 'Path cannot be shortened' row of its own in the
\* warnings file, a row whose path is a file of that directory.
C25_EveryFlaggedDirectoryWarned ==
    pc \in {"analyze_trimmable", "search_trimmable", "batch", "done"} =>
        \A p \in DOMAIN nodes_path :
            nodes_path[p].unable_to_shorten =>
                \E i \in 1..Len(warnings_rows) :
                    /\ warnings_rows[i].Message = CANNOT_SHORTEN
                    /\ DirPathOf(warnings_rows[i].Path, path_sep) = p

\* the directories of the Directory Tree below p
DescendantDirs(p) == { d \in TreeDirs : IsBelow(d, p) }

\* C26: after the child-count pass, for every directory of the Directory
\* Tree, local_plus_child_cnt = local_cnt + (number of descendant
\* directories) and total_plus_child_cnt = total_cnt + (number of
\* descendant directories).
C26_PlusChildCountsDescendantsOnce ==
    AfterChildCounts =>
        \A p \in TreeDirs :
            LET n == nodes_path[p]
                k == Cardinality(DescendantDirs(p))
            IN  /\ n.local_plus_child_cnt = n.local_cnt + k
                /\ n.total_plus_child_cnt = n.total_cnt + k

\* C26 amended: after the child-count pass, for every directory of the
\* Directory Tree, local_plus_child_cnt = local_cnt + (number of descendant
\* directories), subdir_plus_child_cnt = subdir_cnt + the same number, and
\* total_plus_child_cnt, their sum, = total_cnt + twice the number of
\* descendant directories.
C26_TotalCountsDescendantsTwice ==
    AfterChildCounts =>
        \A p \in TreeDirs :
            LET n == nodes_path[p]
                k == Cardinality(DescendantDirs(p))
            IN  /\ n.child_node_cnt = k
                /\ n.local_plus_child_cnt = n.local_cnt + k
                /\ n.subdir_plus_child_cnt = n.subdir_cnt + k
                /\ n.total_plus_child_cnt = n.total_cnt + 2 * k

\* the pass has run over a directory that has two descendant directories
\* and counted files, locally and below
C26_Witness ==
    /\ AfterChildCounts
    /\ \E p \in TreeDirs :
          /\ Cardinality(DescendantDirs(p)) >= 2
          /\ nodes_path[p].local_cnt > 0
          /\ nodes_path[p].subdir_cnt > 0
          /\ nodes_path[p].total_plus_child_cnt = nodes_path[p].total_cnt + 4

\* C27: for either path separator, every directory path the walk of the
\* Directory Tree produces is, with its leading separator stripped, a key
\* of the Node Registry, and no pass over the tree fails on a lookup.
C27_WalkedPathsAreRegistered ==
    /\ pc # "KeyError"
    /\ \A i \in 1..Len(walk_paths(dir_tree)) :
          LStrip(walk_paths(dir_tree)[i].path, path_sep) \in DOMAIN nodes_path

\* the directories named in the batch list
BatchedDirs == { batch_rows[i].Directory_Path : i \in 1..Len(batch_rows) }

\* C28: in total mode, once the batch walk is done, every registered
\* directory with local_cnt > 0 is in the batch list, or lies below a
\* directory of the batch list, or has a 'Directory local file count over
\* limit' row in the warnings file.
C28_CountedFilesAccountedFor ==
    (pc = "done" /\ ~search_local) =>
        \A p \in DOMAIN nodes_path :
            nodes_path[p].local_cnt > 0 =>
                \/ p \in BatchedDirs
                \/ \E b \in BatchedDirs : IsBelow(p, b)
                \/ WarningCount(OVER_LIMIT, p) >= 1

\* C29: every 'Path cannot be shortened' row of the warnings file names a
\* file that was read for the row's directory, was classified Outlier3, and
\* for which shorten_path returned 'UNABLE_TO_SHORTEN'.
C29_UnableRowNamesUnshortenedFile ==
    \A i \in 1..Len(warnings_rows) :
        warnings_rows[i].Message = CANNOT_SHORTEN =>
            LET path == warnings_rows[i].Path
                history == HistoryOf(ingested, DirPathOf(path, path_sep))
            IN  /\ \E j \in 1..Len(history) :
                      history[j] = path /\ FirstTest(path) = "outlier3"
                /\ shorten_path(path, max_path_length, TRUE, path_sep) = UNABLE_TO_SHORTEN

\* C30: when max_parent_file_length <= max_path_length, the last file read,
\* if it was classified Outlier3, has at least three path segments and
\* shorten_path returned for it a string other than 'UNABLE_TO_SHORTEN', and
\* no Node has unable_to_shorten set or a non-zero num_unable_to_shorten.
C30_ShorteningNeverFails ==
    max_parent_file_length <= max_path_length =>
        /\ last.outcome = "outlier3" =>
              /\ Len(Split(last.path, path_sep)) >= 3
              /\ last.shortened # UNABLE_TO_SHORTEN
        /\ \A p \in DOMAIN nodes_path :
              /\ ~nodes_path[p].unable_to_shorten
              /\ nodes_path[p].num_unable_to_shorten = 0

=============================================================================
